---- MODULE Spec2Model ----
(***************************************************************************)
(* Model of invoiceAnalysis.py: the normalisation of IBM Cloud Classic     *)
(* invoices into ledger rows (getInvoiceDetail) and the billing-cycle      *)
(* label (getCFTSInvoiceDate).                                             *)
(*                                                                         *)
(* Representation                                                          *)
(*   - a date is <<year, month, day>> in the reference (Dallas) time zone; *)
(*     the time of day plays no part in any rule modelled here;            *)
(*   - strftime("%Y-%m-%d") is the digit string YYYYMMDD read as a number, *)
(*     strftime("%Y-%m") the digit string YYYYMM;                          *)
(*   - amounts (totalRecurringAmount, totalOneTimeAmount, invoice totals)  *)
(*     are in cents; hourly fees are in units of 0.00001 dollar, the       *)
(*     precision round(hourlyRecurringFee, 5) keeps, so one cent is 1000   *)
(*     fee units;                                                          *)
(*   - a quotient that stays fractional (NewEstimatedMonthly) is the       *)
(*     fraction <<numerator, denominator>> in lowest terms;                *)
(*   - a key a record may lack ('hourlyRecurringFee') is a field the       *)
(*     record may lack: "k" \in DOMAIN r is Python's "k" in r;             *)
(*   - a text is the sequence of its tokens, white space (" ", newline)    *)
(*     being tokens of their own, so that strip(), replace() and + act on  *)
(*     it as they do on the string;                                        *)
(*   - billingItemId numbers the top-level items of an invoice in the      *)
(*     order the API lists them.                                           *)
(***************************************************************************)
EXTENDS Integers, Sequences, FiniteSets, TLC

VARIABLES
    pc,                 \* position of the run
    invoiceList,        \* getInvoiceList's result
    invoiceIdx,         \* position of "for invoice in invoiceList"
    invoiceID, invoiceDate, invoiceType, CFTSInvoiceDate, totalItems,
    serviceDateStart, serviceDateEnd, recurringDesc,
    offset,             \* position of "for offset in range(0, totalItems, limit)"
    Billing_Invoice,    \* the items of the fetched page not yet iterated
    df,                 \* the ledger (DataFrame rows, in append order)
    raw,                \* raw[i]: the invoice position and line item df[i] was built from
    requests,           \* getInvoiceTopLevelItems calls issued: <<invoice id, offset>>
    args,               \* the parsed command line: a value of None is a missing field
    today,              \* datetime.today() in the reference time zone
    startdate, enddate, \* main's date range
    IC_ACCOUNT_ID,      \* getAccountId's result
    paasStart,          \* accountUsage: the usage month to fetch next
    paasUsage,          \* accountUsage's result
    report,             \* the sheets of the file writer.save() wrote, <<>> if none
    calls,              \* the API requests issued, in order, each with its outcome
    exitStatus          \* the exit status of the process, Running until it ends

\* main's variables that getInvoiceDetail leaves alone
mainVars == <<args, today, startdate, enddate, IC_ACCOUNT_ID, paasStart, paasUsage,
              report>>

vars == <<pc, invoiceList, invoiceIdx, invoiceID, invoiceDate, invoiceType,
          CFTSInvoiceDate, totalItems, serviceDateStart, serviceDateEnd,
          recurringDesc, offset, Billing_Invoice, df, raw, requests,
          mainVars, calls, exitStatus>>

-----------------------------------------------------------------------------
(* Bounds of the exploration *)

\* longest invoice list of a multi-row run
MaxInvoices == 3
\* most top-level items over all invoices of a multi-row run
MaxRows == 2

\* most rows of a ledger handed to createReport on its own
MaxLedger == 3

\* most months a run with -m on its own asks for
MaxMonths == 13

\* page size of getInvoiceTopLevelItems
limit == 250

-----------------------------------------------------------------------------
(* Calendar: calendar.monthrange, dateutil.relativedelta, strftime *)

Min(a, b) == IF a <= b THEN a ELSE b

IsLeap(y) == (y % 4 = 0 /\ y % 100 # 0) \/ y % 400 = 0

\* calendar.monthrange(year, month)[1]
monthrange(y, m) ==
    IF m \in {4, 6, 9, 11} THEN 30
    ELSE IF m = 2 THEN (IF IsLeap(y) THEN 29 ELSE 28)
    ELSE 31

relativedeltaNoCarry(d, n) ==
    LET m == d[2] + n
        mm == ((m - 1) % 12) + 1
    IN  <<d[1], mm, Min(d[3], monthrange(d[1], mm))>>

\* date + relativedelta(months=n): the month moves by n with the year carried,
\* the day is clamped to the length of the month reached
relativedelta(d, n) ==
    LET t == d[1] * 12 + (d[2] - 1) + n
        y == t \div 12
        m == (t % 12) + 1
    IN  <<y, m, Min(d[3], monthrange(y, m))>>

\* date.replace(day=calendar.monthrange(date.year, date.month)[1])
LastDayOfMonth(d) == <<d[1], d[2], monthrange(d[1], d[2])>>

\* strftime("%Y-%m-%d")
strftimeYmd(d) == d[1] * 10000 + d[2] * 100 + d[3]

\* strftime("%Y-%m")
strftimeYm(d) == d[1] * 100 + d[2]

getCFTSInvoiceDateFrom19(d) ==
    IF d[3] >= 19 THEN strftimeYm(relativedelta(d, 1)) ELSE strftimeYm(d)

getCFTSInvoiceDate(d) ==
    IF d[3] > 19 THEN strftimeYm(relativedelta(d, 1)) ELSE strftimeYm(d)

-----------------------------------------------------------------------------
(* Arithmetic: round(), and the float quotient of NewEstimatedMonthly *)

RoundDown(n, d) == n \div d

\* Python 3 round(n / d) for d > 0: the nearest integer, a tie going to the even one
Round(n, d) ==
    LET q == n \div d
        r == n % d
    IN  IF 2 * r < d THEN q
        ELSE IF 2 * r > d THEN q + 1
        ELSE IF q % 2 = 0 THEN q ELSE q + 1

RECURSIVE GCD(_, _)
GCD(a, b) == IF b = 0 THEN a ELSE GCD(b, a % b)

\* the quotient n / d, kept exact
Frac(n, d) ==
    LET g == GCD(n, d)
    IN  IF g = 0 THEN <<n, d>> ELSE <<n \div g, d \div g>>

-----------------------------------------------------------------------------
(* Text: str.strip(), str.replace('\n', " ") *)

NL == "\n"
WhiteSpace == {" ", NL}

RECURSIVE lstrip(_)
lstrip(t) ==
    IF t # <<>> /\ Head(t) \in WhiteSpace THEN lstrip(Tail(t)) ELSE t

RECURSIVE rstrip(_)
rstrip(t) ==
    IF t # <<>> /\ t[Len(t)] \in WhiteSpace
    THEN rstrip(SubSeq(t, 1, Len(t) - 1))
    ELSE t

\* text.strip()
strip(t) == rstrip(lstrip(t))

\* text.replace('\n', " ")
replaceNewlines(t) == [k \in 1..Len(t) |-> IF t[k] = NL THEN " " ELSE t[k]]

-----------------------------------------------------------------------------
(* The billing API's data: what Account::getInvoices and                   *)
(* Billing_Invoice::getInvoiceTopLevelItems may return                     *)

\* SoftLayer_Billing_Invoice typeCode values; REFUND stands for every type
\* the script has no rule for
TypeCodes == {"NEW", "RECURRING", "CREDIT", "ONE-TIME-CHARGE", "REFUND"}

Years == {2023, 2024}

\* every calendar date of Years
AllDates ==
    {d \in Years \X (1..12) \X (1..31) : d[3] <= monthrange(d[1], d[2])}

\* the dates of single-row runs: the first, the cut-off days 19 and 20, the
\* 25th and the last day of every month of Years
WideDates ==
    {d \in AllDates : d[3] \in {1, 19, 20, 25, monthrange(d[1], d[2])}}

Shape(date, type, total) ==
    [createDate |-> date, typeCode |-> type, invoiceTotalAmount |-> total,
     invoiceTotalRecurringAmount |-> total]

WideShapes == {Shape(d, t, 10000) : d \in WideDates, t \in TypeCodes}

\* the invoices of multi-row runs: one for each way the invoice type sets the
\* service period (NEW, CREDIT, RECURRING, none), and one of total 0
NarrowShapes ==
    { Shape(<<2024, 3, 31>>, "NEW", 10000),
      Shape(<<2024, 1, 1>>, "RECURRING", 10000),
      Shape(<<2024, 1, 20>>, "CREDIT", 10000),
      Shape(<<2024, 4, 25>>, "REFUND", 10000),
      Shape(<<2024, 4, 25>>, "NEW", 0) }

Invoice(id, shape, count) ==
    [id |-> id, createDate |-> shape.createDate, typeCode |-> shape.typeCode,
     invoiceTotalAmount |-> shape.invoiceTotalAmount,
     invoiceTotalRecurringAmount |-> shape.invoiceTotalRecurringAmount,
     invoiceTopLevelItemCount |-> count]

RECURSIVE ItemCount(_)
ItemCount(l) ==
    IF l = <<>> THEN 0
    ELSE Head(l).invoiceTopLevelItemCount + ItemCount(Tail(l))

RECURSIVE NarrowListsOfLen(_)
NarrowListsOfLen(n) ==
    IF n = 0 THEN {<<>>}
    ELSE { l \in { Append(p, Invoice(n, s, c)) :
                     p \in NarrowListsOfLen(n - 1), s \in NarrowShapes, c \in 0..MaxRows } :
           /\ ItemCount(l) <= MaxRows
           /\ (l[n].invoiceTotalAmount = 0 => l[n].invoiceTopLevelItemCount = 1) }

NarrowLists == UNION {NarrowListsOfLen(n) : n \in 0..MaxInvoices}

WideLists == {<<Invoice(1, s, 1)>> : s \in WideShapes}

\* the invoice lists explored: every one-invoice, one-item list over the wide
\* sets, and every list within MaxInvoices and MaxRows over the narrow ones
\* (an invoice of total 0 there always holds one item, which is never fetched)
InvoiceLists == WideLists \cup NarrowLists

\* (categoryCode, category.name) of a top-level item
Server == <<"guest_core", "Computing Instance">>
FileStorage == <<"storage_as_a_service", "Storage As A Service">>
ServicePlan == <<"service_plan", "IBM Platform Service Plan Usage">>

\* children: some carry an hourlyRecurringFee, some do not
FeeChild(f) == [categoryCode |-> "guest_disk0", hourlyRecurringFee |-> f]
PlainChild ==
    [categoryCode |-> "ram", product |-> [description |-> <<"16", " ", "GB">>]]

\* product.description of a top-level item, with an embedded newline
ProductText == <<"2", " ", "x", NL, "2.0", " ", "GHz">>
ChildLists ==
    { <<>>, <<FeeChild(50000)>>, <<PlainChild, FeeChild(25000), FeeChild(25000)>> }

ItemNoFee(cat, hourly, amount, children) ==
    [categoryCode |-> cat[1], category |-> cat[2], hourlyFlag |-> hourly,
     totalRecurringAmount |-> amount, totalOneTimeAmount |-> 0,
     product |-> [description |-> ProductText],
     children |-> children]

ItemWithFee(cat, hourly, amount, children, fee) ==
    [categoryCode |-> cat[1], category |-> cat[2], hourlyFlag |-> hourly,
     totalRecurringAmount |-> amount, totalOneTimeAmount |-> 0,
     product |-> [description |-> ProductText],
     children |-> children, hourlyRecurringFee |-> fee]

\* the line items of single-row runs: hourly items with the fee absent, 0 or
\* positive, with and without children, at charges that divide exactly
\* (45.00 / 1.50), round up (46.00 / 1.50) and tie (3.75 / 1.50);
\* and monthly items of each category
WideItems ==
    { ItemNoFee(c, TRUE, a, ch) :
        c \in {Server, FileStorage}, a \in {4500, 4600, 375}, ch \in ChildLists }
    \cup
    { ItemWithFee(c, TRUE, a, ch, f) :
        c \in {Server, FileStorage}, a \in {4500, 4600, 375}, ch \in ChildLists,
        f \in {0, 150000} }
    \cup
    { ItemNoFee(c, FALSE, 10000, ch) :
        c \in {Server, FileStorage, ServicePlan}, ch \in {<<>>, <<FeeChild(50000)>>} }
    \cup
    { ItemWithFee(ServicePlan, TRUE, 4500, <<>>, 150000),
      ItemNoFee(Server, FALSE, 10000, <<[categoryCode |-> "ram"]>>) }

\* the line items of multi-row runs: one for each way the item sets the
\* service period (hourly, Platform Service Plan, neither)
NarrowItems ==
    { ItemWithFee(Server, TRUE, 4500, <<FeeChild(50000)>>, 150000),
      ItemNoFee(Server, FALSE, 10000, <<>>),
      ItemNoFee(ServicePlan, FALSE, 10000, <<>>) }

\* more categories whose description is built from the children
EnterpriseStorage == <<"storage_service_enterprise", "Endurance">>
PerformanceStorage == <<"performance_storage_iops", "Performance">>
GuestStorage == <<"guest_storage", "Guest Storage">>

\* a child with its product.description and its own description
Child(code, productText, text) ==
    [categoryCode |-> code, product |-> [description |-> productText],
     description |-> text]

SpaceChild ==
    Child("performance_storage_space", <<"1000GB">>, <<"500", " ", "GBs">>)
TierChild ==
    Child("storage_tier_level", <<" ", "Tier", " ", "1", " ">>, <<"READHEAVY_TIER">>)
SnapshotChild ==
    Child("storage_snapshot_space", <<"200GB">>, <<"20", " ", "GBs", " ">>)

\* the storage space child: none, complete, or with blank texts
SpaceChildren ==
    { <<>>, <<SpaceChild>>, <<Child("performance_storage_space", <<" ">>, <<>>)>> }

\* the tier child: none or complete
TierChildren == { <<>>, <<TierChild>> }

\* the snapshot child: none; complete; with a blank product description;
\* without product; without description; and two of them
SnapshotChildren ==
    { <<>>,
      <<SnapshotChild>>,
      <<Child("storage_snapshot_space", <<" ", NL>>, <<"20", " ", "GBs">>)>>,
      <<[categoryCode |-> "storage_snapshot_space", description |-> <<"20", " ", "GBs">>]>>,
      <<[categoryCode |-> "storage_snapshot_space",
         product |-> [description |-> <<"200GB">>]]>>,
      <<SnapshotChild, Child("storage_snapshot_space", <<"300GB">>, <<"30", " ", "GBs">>)>> }

\* a leading child without categoryCode: none or one
UncodedChildren == { <<>>, <<[description |-> <<"note">>]>> }

StorageChildLists ==
    { u \o sp \o ti \o sn :
        u \in UncodedChildren, sp \in SpaceChildren, ti \in TierChildren,
        sn \in SnapshotChildren }

\* the line items of description runs: storage items of every category with
\* every list of StorageChildLists, guest storage with and without its usage
\* child, and servers with and without hostName, domainName, ram and os
DescriptionItems ==
    { ItemNoFee(c, h, 10000, ch) :
        c \in {EnterpriseStorage, FileStorage}, h \in BOOLEAN, ch \in StorageChildLists }
    \cup
    { ItemNoFee(PerformanceStorage, FALSE, 10000, ch) :
        ch \in { <<>>, <<SpaceChild>>,
                 <<SpaceChild, Child("performance_storage_iops", <<"4000", " ", "IOPS">>, <<>>)>> } }
    \cup
    { ItemNoFee(GuestStorage, FALSE, 10000, ch) :
        ch \in { <<>>,
                 <<Child("guest_storage_usage", <<"Usage">>, <<" ", "25", " ", "GB">>)>>,
                 <<[categoryCode |-> "guest_storage_usage"]>> } }
    \cup
    { h @@ ItemNoFee(Server, FALSE, 10000, ch) :
        h \in { <<>>, [hostName |-> <<"web1">>],
                [hostName |-> <<"web1">>, domainName |-> <<"example.com">>],
                [domainName |-> <<"example.com">>] },
        ch \in { <<>>, <<PlainChild>>, <<[categoryCode |-> "os"]>>,
                 <<PlainChild,
                   Child("os", <<"Ubuntu", " ", "22.04", NL>>, <<>>),
                   Child("os", <<"CentOS">>, <<>>)>> } }

\* the invoice of a description run
DescriptionLists ==
    { <<Invoice(1, Shape(<<2024, 1, 1>>, "RECURRING", 30000), 1)>> }

\* item counts around one and two full pages
PagingCounts == {0, 1, 249, 250, 251, 500, 501}

\* the invoices of a paging run: one invoice of each count, or two invoices
\* of no, one or more than one page each
PagingLists ==
    { <<Invoice(1, Shape(<<2024, 1, 1>>, "RECURRING", 25000), n)>> : n \in PagingCounts }
    \cup
    { <<Invoice(1, Shape(<<2024, 1, 1>>, "RECURRING", 25000), n),
        Invoice(2, Shape(<<2024, 1, 1>>, "RECURRING", 25000), m)>> :
        n \in {0, 250, 251}, m \in {0, 1, 251} }

\* the line item of paging runs
PagingItems == { ItemNoFee(Server, FALSE, 10000, <<>>) }

\* the invoices a run of main is answered with: none; one RECURRING invoice;
\* an invoice of total 0, then a NEW and a RECURRING invoice of two cycles;
\* a REFUND invoice
MainLists ==
    { <<>>,
      <<Invoice(1, Shape(<<2024, 1, 1>>, "RECURRING", 20000), 1)>>,
      <<Invoice(1, Shape(<<2024, 1, 20>>, "NEW", 0), 1),
        Invoice(2, Shape(<<2024, 1, 20>>, "NEW", 20000), 1),
        Invoice(3, Shape(<<2024, 2, 1>>, "RECURRING", 20000), 1)>>,
      <<Invoice(1, Shape(<<2024, 1, 5>>, "REFUND", 20000), 1)>> }

\* the line items of a run of main: a well-formed one and one whose "os"
\* child has no product
MainItems ==
    { ItemNoFee(Server, FALSE, 10000, <<>>),
      ItemNoFee(Server, FALSE, 10000, <<[categoryCode |-> "os"]>>) }

\* the items a page of the current run is drawn from
LineItems ==
    IF invoiceList \in DescriptionLists
    THEN DescriptionItems
    ELSE IF invoiceList \in PagingLists
    THEN PagingItems
    ELSE IF invoiceList \in MainLists
    THEN MainItems
    ELSE IF Len(invoiceList) = 1 /\ invoiceList[1].invoiceTopLevelItemCount = 1
    THEN WideItems
    ELSE NarrowItems

\* item with the billingItemId the API lists it under
WithBillingItemId(item, id) == ("billingItemId" :> id) @@ item

\* the page with its items numbered from offset + 1
Numbered(page, first) ==
    [k \in 1..Len(page) |-> WithBillingItemId(page[k], first + k)]

\* every page of n items
Pages(n) == [1..n -> LineItems]

-----------------------------------------------------------------------------
(* getInvoiceDetail: the rules of one invoice and of one line item *)

\* a local variable not yet assigned
Unbound == <<0, 0, 0>>

\* exitStatus while the process runs
Running == -1

quitContinues == "done"

\* the position of a run that quit() ended
quit == "quit"

\* an API request and whether it was answered (TRUE) or raised (FALSE)
Call(api, ok) == [api |-> api, ok |-> ok]

\* a get_account_usage request for billingmonth and its outcome
UsageCall(billingmonth, ok) ==
    [api |-> "get_account_usage", ok |-> ok, billingmonth |-> billingmonth]

\* accountUsage's empty DataFrame
EmptyUsage == [kind |-> "DataFrame", rows |-> <<>>]

IsZeroTotalNever(invoice) == FALSE

\* float(invoice['invoiceTotalAmount']) == 0
IsZeroTotal(invoice) == invoice.invoiceTotalAmount = 0

\* serviceDateStart and serviceDateEnd after the invoice-level rules
InvoiceServicePeriod(date, type) ==
    IF type \in {"CREDIT", "ONE-TIME-CHARGE"} THEN <<date, date>>
    ELSE IF type = "NEW" THEN <<date, LastDayOfMonth(date)>>
    ELSE <<serviceDateStart, serviceDateEnd>>

\* hourly charges are the previous month's usage
HourlyServiceStart(date) == relativedelta(date, -1)

PlatformServiceStartOneMonth(date) == relativedelta(date, -1)

\* platform service usage is the usage of two months before
PlatformServiceStart(date) == relativedelta(date, -2)

\* categoryName.find("Platform Service Plan") != -1
IsPlatformServicePlan(item) ==
    item.category \in {"Platform Service Plan", "IBM Platform Service Plan Usage"}

\* <<serviceDateStart, serviceDateEnd, recurringDesc>> after the item-level rules
ItemServicePeriod(item) ==
    IF item.hourlyFlag
    THEN <<HourlyServiceStart(invoiceDate),
           LastDayOfMonth(HourlyServiceStart(invoiceDate)), "IaaS Usage">>
    ELSE IF IsPlatformServicePlan(item)
    THEN <<PlatformServiceStart(invoiceDate),
           LastDayOfMonth(PlatformServiceStart(invoiceDate)), "Platform Service Usage">>
    ELSE IF invoiceType = "RECURRING"
    THEN <<invoiceDate, LastDayOfMonth(invoiceDate), "IaaS Monthly">>
    ELSE <<serviceDateStart, serviceDateEnd, recurringDesc>>

RECURSIVE ChildFees(_)
\* the sum of child['hourlyRecurringFee'] over the children that have the key
ChildFees(children) ==
    IF children = <<>> THEN 0
    ELSE (IF "hourlyRecurringFee" \in DOMAIN Head(children)
          THEN Head(children).hourlyRecurringFee ELSE 0)
         + ChildFees(Tail(children))

\* round(float(recurringFee) / hourlyRecurringFee): cents over fee units
HoursOf(recurringFee, hourlyRecurringFee) ==
    Round(recurringFee * 1000, hourlyRecurringFee)

\* <<hourlyRecurringFee, hours>> after the hourly / not hourly branches
BaseHourly(item) ==
    IF item.hourlyFlag
       /\ "hourlyRecurringFee" \in DOMAIN item
       /\ item.hourlyRecurringFee > 0
    THEN LET fee == item.hourlyRecurringFee + ChildFees(item.children)
         IN  <<fee, HoursOf(item.totalRecurringAmount, fee)>>
    ELSE <<0, 0>>

\* <<hourlyRecurringFee, hours>> of the row: an hourly storage_as_a_service
\* item adds its children's fees to the fee and divides again
Hourly(item) ==
    IF item.categoryCode = "storage_as_a_service" /\ item.hourlyFlag
    THEN LET fee == BaseHourly(item)[1] + ChildFees(item.children)
         IN  IF fee > 0
             THEN <<fee, HoursOf(item.totalRecurringAmount, fee)>>
             ELSE <<fee, 0>>
    ELSE BaseHourly(item)

DaysLeftExclusive(date) == monthrange(date[1], date[2]) - date[3]

\* daysLeft = daysInMonth - invoiceDate.day + 1
DaysLeft(date) == monthrange(date[1], date[2]) - date[3] + 1

\* NewEstimatedMonthly of the row
NewEstimatedMonthly(item) ==
    IF invoiceType = "NEW"
    THEN LET daysInMonth == monthrange(invoiceDate[1], invoiceDate[2])
             dailyAmount == Frac(item.totalRecurringAmount, DaysLeft(invoiceDate))
         IN  Frac(dailyAmount[1] * daysInMonth, dailyAmount[2])
    ELSE Frac(0, 1)

\* the index of the first child of detail that has categoryCode, 0 if none
FirstMatch(categoryCode, detail) ==
    LET ks == {k \in 1..Len(detail) :
                  /\ "categoryCode" \in DOMAIN detail[k]
                  /\ detail[k].categoryCode = categoryCode}
    IN  IF ks = {} THEN 0 ELSE CHOOSE k \in ks : \A j \in ks : k <= j

\* getDescription raises KeyError: the matching child has no product.description
getDescriptionKeyError(categoryCode, detail) ==
    LET k == FirstMatch(categoryCode, detail)
    IN  /\ k # 0
        /\ ~ ("product" \in DOMAIN detail[k] /\ "description" \in DOMAIN detail[k].product)

getDescriptionUnstripped(categoryCode, detail) ==
    LET k == FirstMatch(categoryCode, detail)
    IN  IF k = 0 THEN <<>> ELSE detail[k].product.description

\* the trimmed product.description of the first matching child, "" if none
getDescription(categoryCode, detail) ==
    LET k == FirstMatch(categoryCode, detail)
    IN  IF k = 0 THEN <<>> ELSE strip(detail[k].product.description)

\* getStorageServiceUsage raises KeyError: the matching child has no description
getStorageServiceUsageKeyError(categoryCode, detail) ==
    LET k == FirstMatch(categoryCode, detail)
    IN  k # 0 /\ "description" \notin DOMAIN detail[k]

getStorageServiceUsageOfProduct(categoryCode, detail) ==
    LET k == FirstMatch(categoryCode, detail)
    IN  IF k = 0 THEN <<>> ELSE strip(detail[k].product.description)

\* the trimmed description of the first matching child, "" if none
getStorageServiceUsage(categoryCode, detail) ==
    LET k == FirstMatch(categoryCode, detail)
    IN  IF k = 0 THEN <<>> ELSE strip(detail[k].description)

\* hostName of the row
hostName(item) ==
    IF "hostName" \in DOMAIN item
    THEN IF "domainName" \in DOMAIN item
         THEN item.hostName \o <<".">> \o item.domainName
         ELSE item.hostName
    ELSE <<>>

\* description of a storage_service_enterprise item
EnterpriseDescription(item) ==
    LET iops == getDescription("storage_tier_level", item.children)
        storage == getDescription("performance_storage_space", item.children)
        snapshot == getDescription("storage_snapshot_space", item.children)
    IN  IF snapshot = <<>>
        THEN storage \o <<" ">> \o iops \o <<" ">>
        ELSE storage \o <<" ">> \o iops \o <<" ", "with", " ">> \o snapshot

\* description of a performance_storage_iops item
PerformanceDescription(item) ==
    LET iops == getDescription("performance_storage_iops", item.children)
        storage == getDescription("performance_storage_space", item.children)
    IN  storage \o <<" ">> \o iops

\* description of a storage_as_a_service item
FileStorageDescription(item) ==
    LET model == IF item.hourlyFlag THEN "Hourly" ELSE "Monthly"
        space == getStorageServiceUsage("performance_storage_space", item.children)
        tier == getDescription("storage_tier_level", item.children)
        snapshot == getDescription("storage_snapshot_space", item.children)
        snapshotspace == getStorageServiceUsage("storage_snapshot_space", item.children)
    IN  IF space = <<>> \/ tier = <<>>
        THEN <<model, " ", "File", " ", "Storage">>
        ELSE IF snapshot = <<>>
        THEN <<model, " ", "File", " ", "Storage", " ">> \o space
             \o <<" ", "at", " ">> \o tier
        ELSE <<model, " ", "File", " ", "Storage", " ">> \o space
             \o <<" ", "at", " ">> \o tier \o <<" ", "with", " ">> \o snapshotspace

\* description of a guest_storage item
GuestStorageDescription(item) ==
    LET imagestorage == getStorageServiceUsage("guest_storage_usage", item.children)
    IN  IF imagestorage = <<>>
        THEN replaceNewlines(item.product.description)
        ELSE imagestorage

\* description of the row
Description(item) ==
    IF item.categoryCode = "storage_service_enterprise" THEN EnterpriseDescription(item)
    ELSE IF item.categoryCode = "performance_storage_iops" THEN PerformanceDescription(item)
    ELSE IF item.categoryCode = "storage_as_a_service" THEN FileStorageDescription(item)
    ELSE IF item.categoryCode = "guest_storage" THEN GuestStorageDescription(item)
    ELSE replaceNewlines(item.product.description)

\* a lookup among the children of item raises KeyError before the row is built
DescriptionKeyError(item) ==
    LET ch == item.children
        cat == item.categoryCode
    IN  \/ getDescriptionKeyError("ram", ch)
        \/ getDescriptionKeyError("os", ch)
        \/ /\ cat = "storage_service_enterprise"
           /\ \E c \in {"storage_tier_level", "performance_storage_space",
                         "storage_snapshot_space"} : getDescriptionKeyError(c, ch)
        \/ /\ cat = "performance_storage_iops"
           /\ \E c \in {"performance_storage_iops", "performance_storage_space"} :
                  getDescriptionKeyError(c, ch)
        \/ /\ cat = "storage_as_a_service"
           /\ IF \/ getStorageServiceUsageKeyError("performance_storage_space", ch)
                 \/ getDescriptionKeyError("storage_tier_level", ch)
                 \/ getDescriptionKeyError("storage_snapshot_space", ch)
              THEN TRUE
              ELSE /\ getStorageServiceUsage("performance_storage_space", ch) # <<>>
                   /\ getDescription("storage_tier_level", ch) # <<>>
                   /\ getDescription("storage_snapshot_space", ch) # <<>>
                   /\ getStorageServiceUsageKeyError("storage_snapshot_space", ch)
        \/ /\ cat = "guest_storage"
           /\ getStorageServiceUsageKeyError("guest_storage_usage", ch)

\* the row appended for item, sp being ItemServicePeriod(item)
Row(item, sp) ==
    [Portal_Invoice_Date |-> strftimeYmd(invoiceDate),
     Service_Date_Start |-> strftimeYmd(sp[1]),
     Service_Date_End |-> strftimeYmd(sp[2]),
     IBM_Invoice_Month |-> CFTSInvoiceDate,
     Portal_Invoice_Number |-> invoiceID,
     BillingItemId |-> item.billingItemId,
     hostName |-> hostName(item),
     Category |-> item.category,
     Description |-> Description(item),
     Memory |-> getDescription("ram", item.children),
     OS |-> getDescription("os", item.children),
     Hourly |-> item.hourlyFlag,
     Hours |-> Hourly(item)[2],
     HourlyRate |-> Hourly(item)[1],
     totalRecurringCharge |-> item.totalRecurringAmount,
     totalOneTimeAmount |-> item.totalOneTimeAmount,
     NewEstimatedMonthly |-> NewEstimatedMonthly(item),
     InvoiceTotal |-> invoiceList[invoiceIdx].invoiceTotalAmount,
     InvoiceRecurring |-> invoiceList[invoiceIdx].invoiceTotalRecurringAmount,
     Type |-> invoiceType,
     Recurring_Description |-> sp[3]]

-----------------------------------------------------------------------------
(* The run of getInvoiceDetail *)

Init ==
    /\ pc = "getInvoiceList"
    /\ invoiceList = <<>>
    /\ invoiceIdx = 0
    /\ invoiceID = 0
    /\ invoiceDate = Unbound
    /\ invoiceType = ""
    /\ CFTSInvoiceDate = 0
    /\ totalItems = 0
    /\ serviceDateStart = Unbound
    /\ serviceDateEnd = Unbound
    /\ recurringDesc = ""
    /\ offset = 0
    /\ Billing_Invoice = <<>>
    /\ df = <<>>
    /\ raw = <<>>
    /\ requests = <<>>
    /\ args = [IC_API_KEY |-> "apikey", startdate |-> 202401, enddate |-> 202401]
    /\ today = <<2024, 1, 20>>
    /\ startdate = Unbound
    /\ enddate = Unbound
    /\ IC_ACCOUNT_ID = ""
    /\ paasStart = Unbound
    /\ paasUsage = EmptyUsage
    /\ report = <<>>
    /\ calls = <<>>
    /\ exitStatus = Running

\* Account::getInvoices answers with a list of lists
GetInvoiceListFrom(lists) ==
    /\ pc = "getInvoiceList"
    /\ \E l \in lists : invoiceList' = l
    /\ invoiceIdx' = 1
    /\ pc' = "invoice"
    /\ UNCHANGED <<invoiceID, invoiceDate, invoiceType, CFTSInvoiceDate, totalItems,
                   serviceDateStart, serviceDateEnd, recurringDesc, offset,
                   Billing_Invoice, df, raw, requests>>
    /\ calls' = Append(calls, Call("Account::getInvoices", TRUE))
    /\ UNCHANGED <<mainVars, exitStatus>>

GetInvoiceList == GetInvoiceListFrom(InvoiceLists)

\* Account::getInvoices raises SoftLayerAPIError: logged, quit()
GetInvoiceListFails ==
    /\ pc = "getInvoiceList"
    /\ pc' = quit
    /\ UNCHANGED <<invoiceList, invoiceIdx, invoiceID, invoiceDate, invoiceType,
                   CFTSInvoiceDate, totalItems, serviceDateStart, serviceDateEnd,
                   recurringDesc, offset, Billing_Invoice, df, raw, requests>>
    /\ calls' = Append(calls, Call("Account::getInvoices", FALSE))
    /\ exitStatus' = 0
    /\ UNCHANGED mainVars

\* the invoice list is exhausted: return df
ReturnLedger ==
    /\ pc = "invoice"
    /\ invoiceIdx > Len(invoiceList)
    /\ pc' = "done"
    /\ UNCHANGED <<invoiceList, invoiceIdx, invoiceID, invoiceDate, invoiceType,
                   CFTSInvoiceDate, totalItems, serviceDateStart, serviceDateEnd,
                   recurringDesc, offset, Billing_Invoice, df, raw, requests>>
    /\ UNCHANGED <<mainVars, calls, exitStatus>>

\* an invoice of total 0: continue
SkipInvoice ==
    /\ pc = "invoice"
    /\ invoiceIdx <= Len(invoiceList)
    /\ IsZeroTotal(invoiceList[invoiceIdx])
    /\ invoiceIdx' = invoiceIdx + 1
    /\ UNCHANGED <<pc, invoiceList, invoiceID, invoiceDate, invoiceType,
                   CFTSInvoiceDate, totalItems, serviceDateStart, serviceDateEnd,
                   recurringDesc, offset, Billing_Invoice, df, raw, requests>>
    /\ UNCHANGED <<mainVars, calls, exitStatus>>

\* the head of the invoice loop's body, down to the first offset
StartInvoice ==
    /\ pc = "invoice"
    /\ invoiceIdx <= Len(invoiceList)
    /\ ~IsZeroTotal(invoiceList[invoiceIdx])
    /\ LET invoice == invoiceList[invoiceIdx]
           sp == InvoiceServicePeriod(invoice.createDate, invoice.typeCode)
       IN  /\ invoiceID' = invoice.id
           /\ invoiceDate' = invoice.createDate
           /\ CFTSInvoiceDate' = getCFTSInvoiceDate(invoice.createDate)
           /\ invoiceType' = invoice.typeCode
           /\ recurringDesc' = ""
           /\ serviceDateStart' = sp[1]
           /\ serviceDateEnd' = sp[2]
           /\ totalItems' = invoice.invoiceTopLevelItemCount
    /\ offset' = 0
    /\ pc' = "page"
    /\ UNCHANGED <<invoiceList, invoiceIdx, Billing_Invoice, df, raw, requests>>
    /\ UNCHANGED <<mainVars, calls, exitStatus>>

\* range(0, totalItems, limit) is exhausted: the next invoice
EndInvoice ==
    /\ pc = "page"
    /\ offset >= totalItems
    /\ invoiceIdx' = invoiceIdx + 1
    /\ pc' = "invoice"
    /\ UNCHANGED <<invoiceList, invoiceID, invoiceDate, invoiceType, CFTSInvoiceDate,
                   totalItems, serviceDateStart, serviceDateEnd, recurringDesc,
                   offset, Billing_Invoice, df, raw, requests>>
    /\ UNCHANGED <<mainVars, calls, exitStatus>>

\* Billing_Invoice::getInvoiceTopLevelItems answers with the page at offset
GetInvoiceTopLevelItems ==
    /\ pc = "page"
    /\ offset < totalItems
    /\ requests' = Append(requests, <<invoiceID, offset>>)
    /\ \E page \in Pages(Min(limit, totalItems - offset)) :
           Billing_Invoice' = Numbered(page, offset)
    /\ pc' = "item"
    /\ UNCHANGED <<invoiceList, invoiceIdx, invoiceID, invoiceDate, invoiceType,
                   CFTSInvoiceDate, totalItems, serviceDateStart, serviceDateEnd,
                   recurringDesc, offset, df, raw>>
    /\ calls' = Append(calls, Call("Billing_Invoice::getInvoiceTopLevelItems", TRUE))
    /\ UNCHANGED <<mainVars, exitStatus>>

\* Billing_Invoice::getInvoiceTopLevelItems raises SoftLayerAPIError: logged, quit()
GetInvoiceTopLevelItemsFails ==
    /\ pc = "page"
    /\ offset < totalItems
    /\ requests' = Append(requests, <<invoiceID, offset>>)
    /\ pc' = quit
    /\ UNCHANGED <<invoiceList, invoiceIdx, invoiceID, invoiceDate, invoiceType,
                   CFTSInvoiceDate, totalItems, serviceDateStart, serviceDateEnd,
                   recurringDesc, offset, Billing_Invoice, df, raw>>
    /\ calls' = Append(calls, Call("Billing_Invoice::getInvoiceTopLevelItems", FALSE))
    /\ exitStatus' = 0
    /\ UNCHANGED mainVars

\* the body of "for item in Billing_Invoice" down to df.append(row)
AppendRow ==
    /\ pc = "item"
    /\ Billing_Invoice # <<>>
    /\ LET item == Head(Billing_Invoice)
           sp == ItemServicePeriod(item)
       IN  /\ ~DescriptionKeyError(item)
           /\ sp[1] # Unbound
           /\ serviceDateStart' = sp[1]
           /\ serviceDateEnd' = sp[2]
           /\ recurringDesc' = sp[3]
           /\ df' = Append(df, Row(item, sp))
           /\ raw' = Append(raw, [invoice |-> invoiceIdx, item |-> item])
    /\ Billing_Invoice' = Tail(Billing_Invoice)
    /\ UNCHANGED <<pc, invoiceList, invoiceIdx, invoiceID, invoiceDate, invoiceType,
                   CFTSInvoiceDate, totalItems, offset, requests>>
    /\ UNCHANGED <<mainVars, calls, exitStatus>>

\* the same body when a child lacks the text a lookup reads: KeyError, which
\* nothing catches
ItemRaises ==
    /\ pc = "item"
    /\ Billing_Invoice # <<>>
    /\ DescriptionKeyError(Head(Billing_Invoice))
    /\ pc' = "KeyError"
    /\ UNCHANGED <<invoiceList, invoiceIdx, invoiceID, invoiceDate, invoiceType,
                   CFTSInvoiceDate, totalItems, serviceDateStart, serviceDateEnd,
                   recurringDesc, offset, Billing_Invoice, df, raw, requests>>
    /\ exitStatus' = 1
    /\ UNCHANGED <<mainVars, calls>>

\* the same body when serviceDateStart was never assigned: building the row
\* raises UnboundLocalError, which nothing catches
RowRaises ==
    /\ pc = "item"
    /\ Billing_Invoice # <<>>
    /\ ~DescriptionKeyError(Head(Billing_Invoice))
    /\ ItemServicePeriod(Head(Billing_Invoice))[1] = Unbound
    /\ pc' = "raised"
    /\ UNCHANGED <<invoiceList, invoiceIdx, invoiceID, invoiceDate, invoiceType,
                   CFTSInvoiceDate, totalItems, serviceDateStart, serviceDateEnd,
                   recurringDesc, offset, Billing_Invoice, df, raw, requests>>
    /\ exitStatus' = 1
    /\ UNCHANGED <<mainVars, calls>>

NextOffsetByOne(o) == o + 1

\* the offset after o in range(0, totalItems, limit)
NextOffset(o) == o + limit

\* the page is exhausted: the next offset
EndPage ==
    /\ pc = "item"
    /\ Billing_Invoice = <<>>
    /\ offset' = NextOffset(offset)
    /\ pc' = "page"
    /\ UNCHANGED <<invoiceList, invoiceIdx, invoiceID, invoiceDate, invoiceType,
                   CFTSInvoiceDate, totalItems, serviceDateStart, serviceDateEnd,
                   recurringDesc, Billing_Invoice, df, raw, requests>>
    /\ UNCHANGED <<mainVars, calls, exitStatus>>

Next ==
    \/ GetInvoiceList
    \/ GetInvoiceListFails
    \/ ReturnLedger
    \/ SkipInvoice
    \/ StartInvoice
    \/ EndInvoice
    \/ GetInvoiceTopLevelItems
    \/ GetInvoiceTopLevelItemsFails
    \/ AppendRow
    \/ ItemRaises
    \/ RowRaises
    \/ EndPage

Spec == Init /\ [][Next]_vars

-----------------------------------------------------------------------------
(* getInvoiceDetail over one RECURRING invoice of one item of DescriptionItems *)

NextDescription ==
    \/ GetInvoiceListFrom(DescriptionLists)
    \/ ReturnLedger
    \/ StartInvoice
    \/ EndInvoice
    \/ GetInvoiceTopLevelItems
    \/ AppendRow
    \/ ItemRaises
    \/ EndPage

SpecDescription == Init /\ [][NextDescription]_vars

-----------------------------------------------------------------------------
(* getInvoiceDetail over the invoices of PagingLists, every request answered *)

NextPaging ==
    \/ GetInvoiceListFrom(PagingLists)
    \/ ReturnLedger
    \/ StartInvoice
    \/ EndInvoice
    \/ GetInvoiceTopLevelItems
    \/ AppendRow
    \/ EndPage

SpecPaging == Init /\ [][NextPaging]_vars

-----------------------------------------------------------------------------
(* getCFTSInvoiceDate on its own, over every date of Years *)

InitLabel ==
    /\ pc = "label"
    /\ invoiceDate \in AllDates
    /\ invoiceList = <<>>
    /\ invoiceIdx = 0
    /\ invoiceID = 0
    /\ invoiceType = ""
    /\ CFTSInvoiceDate = 0
    /\ totalItems = 0
    /\ serviceDateStart = Unbound
    /\ serviceDateEnd = Unbound
    /\ recurringDesc = ""
    /\ offset = 0
    /\ Billing_Invoice = <<>>
    /\ df = <<>>
    /\ raw = <<>>
    /\ requests = <<>>
    /\ args = [IC_API_KEY |-> "apikey", startdate |-> 202401, enddate |-> 202401]
    /\ today = <<2024, 1, 20>>
    /\ startdate = Unbound
    /\ enddate = Unbound
    /\ IC_ACCOUNT_ID = ""
    /\ paasStart = Unbound
    /\ paasUsage = EmptyUsage
    /\ report = <<>>
    /\ calls = <<>>
    /\ exitStatus = Running

\* CFTSInvoiceDate = getCFTSInvoiceDate(invoiceDate)
Label ==
    /\ pc = "label"
    /\ CFTSInvoiceDate' = getCFTSInvoiceDate(invoiceDate)
    /\ pc' = "labelled"
    /\ UNCHANGED <<invoiceList, invoiceIdx, invoiceID, invoiceDate, invoiceType,
                   totalItems, serviceDateStart, serviceDateEnd, recurringDesc,
                   offset, Billing_Invoice, df, raw, requests>>
    /\ UNCHANGED <<mainVars, calls, exitStatus>>

SpecLabel == InitLabel /\ [][Label]_vars

-----------------------------------------------------------------------------
(* Claims *)

\* the invoice and the line item row i of the ledger was built from
InvoiceOf(i) == invoiceList[raw[i].invoice]
ItemOf(i) == raw[i].item

\* C1: getCFTSInvoiceDate labels a date of day <= 19 with its own year-month
\* and a date of day > 19 with the following calendar month, January of the
\* next year for December; so day 19 is labelled as day 1 of the same month
\* and day 20 as day 1 of the next.
C1_CycleLabel ==
    pc = "labelled" =>
        LET y == invoiceDate[1]
            m == invoiceDate[2]
        IN  CFTSInvoiceDate =
                (IF invoiceDate[3] <= 19 THEN y * 100 + m
                 ELSE IF m = 12 THEN (y + 1) * 100 + 1
                 ELSE y * 100 + m + 1)

\* a December date after the cut-off, labelled January of the next year
C1_Witness ==
    pc = "labelled" /\ invoiceDate = <<2023, 12, 20>> /\ CFTSInvoiceDate = 202401

\* C2: an invoice whose invoiceTotalAmount is 0 contributes no ledger row and
\* no line-item request, and the step that passes it changes nothing but the
\* position in the invoice list (so the rows of the other invoices are what
\* they would be without it).
C2_ZeroTotalSkipped ==
    /\ [](\A i \in 1..Len(df) :
            /\ invoiceList[raw[i].invoice].invoiceTotalAmount # 0
            /\ invoiceList[df[i].Portal_Invoice_Number].invoiceTotalAmount # 0)
    /\ [](\A k \in 1..Len(requests) :
            invoiceList[requests[k][1]].invoiceTotalAmount # 0)
    /\ [][(/\ pc = "invoice"
           /\ invoiceIdx <= Len(invoiceList)
           /\ invoiceList[invoiceIdx].invoiceTotalAmount = 0)
          => (/\ pc' = "invoice"
              /\ invoiceIdx' = invoiceIdx + 1
              /\ UNCHANGED <<df, raw, requests, serviceDateStart, serviceDateEnd,
                             recurringDesc, invoiceList>>)]_vars

\* a finished run that passed an invoice of total 0 holding an item, between
\* or before invoices that produced rows
C2_Witness ==
    /\ pc = "done"
    /\ df # <<>>
    /\ \E k \in 1..Len(invoiceList) :
          /\ invoiceList[k].invoiceTotalAmount = 0
          /\ invoiceList[k].invoiceTopLevelItemCount > 0
          /\ \E i \in 1..Len(df) : raw[i].invoice > k

\* C3: in every ledger row, Hours is an integer; when the item is hourly and
\* the reported HourlyRate is > 0, Hours is an integer nearest to
\* totalRecurringCharge / HourlyRate (45.00 / 1.50 gives 30, 46.00 / 1.50
\* gives 31); otherwise Hours is 0.
C3_Hours ==
    \A i \in 1..Len(df) :
        LET r == df[i]
            diff == r.Hours * r.HourlyRate - r.totalRecurringCharge * 1000
        IN  /\ r.Hours \in Int
            /\ IF r.Hourly /\ r.HourlyRate > 0
               THEN /\ 2 * diff <= r.HourlyRate
                    /\ 2 * (-diff) <= r.HourlyRate
                    /\ (r.HourlyRate = 150000 /\ r.totalRecurringCharge = 4500
                            => r.Hours = 30)
                    /\ (r.HourlyRate = 150000 /\ r.totalRecurringCharge = 4600
                            => r.Hours = 31)
               ELSE r.Hours = 0

\* the row of an hourly item of 46.00 at 1.50 an hour: 31 hours
C3_Witness ==
    \E i \in 1..Len(df) :
        /\ df[i].Hourly
        /\ df[i].HourlyRate = 150000
        /\ df[i].totalRecurringCharge = 4600
        /\ df[i].Hours = 31

\* C4: for every hourly line item of every category, HourlyRate is the
\* item's own hourlyRecurringFee (present and > 0) plus the hourlyRecurringFee
\* of every child that has one, each child counted once; with no positive own
\* fee, HourlyRate and Hours are 0 whatever the children carry.
C4_EffectiveHourlyFee ==
    \A i \in 1..Len(df) :
        LET item == ItemOf(i)
        IN  item.hourlyFlag =>
                IF "hourlyRecurringFee" \in DOMAIN item /\ item.hourlyRecurringFee > 0
                THEN df[i].HourlyRate =
                        item.hourlyRecurringFee + ChildFees(item.children)
                ELSE df[i].HourlyRate = 0 /\ df[i].Hours = 0

\* C5: every row of a NEW invoice has Service_Date_Start the invoice date and
\* Service_Date_End the last day of the invoice date's month, whatever the
\* item's billing model and whatever items precede it.
C5_NewServicePeriod ==
    \A i \in 1..Len(df) :
        df[i].Type = "NEW" =>
            LET d == InvoiceOf(i).createDate
            IN  /\ df[i].Service_Date_Start = d[1] * 10000 + d[2] * 100 + d[3]
                /\ df[i].Service_Date_End =
                       d[1] * 10000 + d[2] * 100 + monthrange(d[1], d[2])

\* C6: every row of a CREDIT or ONE-TIME-CHARGE invoice has Service_Date_Start
\* and Service_Date_End both the invoice date, whatever the item's billing
\* model and whatever items precede it.
C6_SingleDayServicePeriod ==
    \A i \in 1..Len(df) :
        df[i].Type \in {"CREDIT", "ONE-TIME-CHARGE"} =>
            LET d == InvoiceOf(i).createDate
            IN  /\ df[i].Service_Date_Start = d[1] * 10000 + d[2] * 100 + d[3]
                /\ df[i].Service_Date_End = d[1] * 10000 + d[2] * 100 + d[3]

\* C7: the row of an hourly item on a RECURRING invoice has its service period
\* in the calendar month before the invoice date's month (December of the
\* previous year for January): Service_Date_Start is the invoice date moved
\* back one month (the day clamped to that month's length), Service_Date_End
\* the last day of that month, and Recurring_Description is "IaaS Usage".
C7_HourlyArrears ==
    \A i \in 1..Len(df) :
        (ItemOf(i).hourlyFlag /\ InvoiceOf(i).typeCode = "RECURRING") =>
            LET d == InvoiceOf(i).createDate
                y == IF d[2] = 1 THEN d[1] - 1 ELSE d[1]
                m == IF d[2] = 1 THEN 12 ELSE d[2] - 1
                last == monthrange(y, m)
            IN  /\ df[i].Service_Date_Start =
                       y * 10000 + m * 100 + (IF d[3] <= last THEN d[3] ELSE last)
                /\ df[i].Service_Date_End = y * 10000 + m * 100 + last
                /\ df[i].Recurring_Description = "IaaS Usage"

\* the row of an hourly item on a RECURRING invoice of January: the service
\* period is December of the year before
C7_Witness ==
    \E i \in 1..Len(df) :
        /\ ItemOf(i).hourlyFlag
        /\ df[i].Type = "RECURRING"
        /\ InvoiceOf(i).createDate = <<2024, 1, 1>>
        /\ df[i].Service_Date_Start = 20231201
        /\ df[i].Service_Date_End = 20231231

\* C8: the row of a non-hourly item whose category name contains "Platform
\* Service Plan" has its service period in the calendar month two months
\* before the invoice date's month, the year rolling over: Service_Date_Start
\* is the invoice date moved back two months (the day clamped),
\* Service_Date_End the last day of that month, and Recurring_Description is
\* "Platform Service Usage".
C8_PlatformTwoMonths ==
    \A i \in 1..Len(df) :
        (~ItemOf(i).hourlyFlag
         /\ ItemOf(i).category = "IBM Platform Service Plan Usage") =>
            LET d == InvoiceOf(i).createDate
                y == IF d[2] <= 2 THEN d[1] - 1 ELSE d[1]
                m == IF d[2] <= 2 THEN d[2] + 10 ELSE d[2] - 2
                last == monthrange(y, m)
            IN  /\ df[i].Service_Date_Start =
                       y * 10000 + m * 100 + (IF d[3] <= last THEN d[3] ELSE last)
                /\ df[i].Service_Date_End = y * 10000 + m * 100 + last
                /\ df[i].Recurring_Description = "Platform Service Usage"

\* the row of a Platform Service Plan item invoiced on 30 April 2024: the
\* service period is 29 February 2024, the day clamped to the leap February
C8_Witness ==
    \E i \in 1..Len(df) :
        /\ ~ItemOf(i).hourlyFlag
        /\ df[i].Category = "IBM Platform Service Plan Usage"
        /\ InvoiceOf(i).createDate = <<2024, 4, 30>>
        /\ df[i].Service_Date_Start = 20240229
        /\ df[i].Service_Date_End = 20240229

\* C9: a row that matches none of the service-period rules (invoice type not
\* NEW, CREDIT, ONE-TIME-CHARGE or RECURRING; item neither hourly nor a
\* Platform Service Plan item) has an unset service period, never a value
\* computed for an earlier item or invoice, and producing it does not abort
\* the run.
C9_NoRuleNoPeriod ==
    /\ pc # "raised"
    /\ \A i \in 1..Len(df) :
          (/\ df[i].Type \notin {"NEW", "CREDIT", "ONE-TIME-CHARGE", "RECURRING"}
           /\ ~ItemOf(i).hourlyFlag
           /\ ItemOf(i).category # "IBM Platform Service Plan Usage") =>
                /\ df[i].Service_Date_Start = 0
                /\ df[i].Service_Date_End = 0

\* C10: on a NEW invoice, NewEstimatedMonthly = recurringCharge / daysLeft *
\* daysInMonth with daysInMonth the length of the invoice date's month and
\* daysLeft = daysInMonth - day + 1 >= 1 (100.00 on the 25th of a 30-day month
\* gives 500.00; on the 1st the estimate is the charge); on every other
\* invoice NewEstimatedMonthly = 0.
C10_NewEstimatedMonthly ==
    \A i \in 1..Len(df) :
        LET d == InvoiceOf(i).createDate
            daysInMonth == monthrange(d[1], d[2])
            daysLeft == daysInMonth - d[3] + 1
            charge == df[i].totalRecurringCharge
            est == df[i].NewEstimatedMonthly
        IN  IF df[i].Type = "NEW"
            THEN /\ daysLeft >= 1
                 /\ est[2] > 0
                 /\ est[1] * daysLeft = charge * daysInMonth * est[2]
                 /\ (d[3] = 1 => est = <<charge, 1>>)
                 /\ (d[3] = 25 /\ daysInMonth = 30 /\ charge = 10000
                         => est = <<50000, 1>>)
            ELSE est = <<0, 1>>

\* the row of a charge of 100.00 on a NEW invoice of 25 April: 500.00
C10_Witness ==
    \E i \in 1..Len(df) :
        /\ df[i].Type = "NEW"
        /\ InvoiceOf(i).createDate = <<2024, 4, 25>>
        /\ df[i].totalRecurringCharge = 10000
        /\ df[i].NewEstimatedMonthly = <<50000, 1>>

-----------------------------------------------------------------------------
(* createReport: the Detail sheet and the TopSheet of each billing cycle *)

RECURSIVE unique(_)
\* Series.unique(): the distinct values in the order they first occur
unique(s) ==
    IF s = <<>> THEN <<>>
    ELSE LET u == unique(SubSeq(s, 1, Len(s) - 1))
         IN  IF \E k \in 1..Len(u) : u[k] = s[Len(s)] THEN u ELSE Append(u, s[Len(s)])

\* classicUsage.IBM_Invoice_Month.unique()
months(classicUsage) ==
    unique([k \in 1..Len(classicUsage) |-> classicUsage[k].IBM_Invoice_Month])

totalAmountRecurringOnly(row) == row.totalRecurringCharge

\* classicUsage["totalAmount"]
totalAmount(row) == row.totalOneTimeAmount + row.totalRecurringCharge

\* the index of a row in the pivot table of a TopSheet
PivotIndex(row) ==
    [Type |-> row.Type, Portal_Invoice_Number |-> row.Portal_Invoice_Number,
     Service_Date_Start |-> row.Service_Date_Start,
     Service_Date_End |-> row.Service_Date_End,
     Recurring_Description |-> row.Recurring_Description]

RECURSIVE SumAmounts(_)
\* np.sum over the totalAmount (Amount) of a sequence of rows
SumAmounts(rows) ==
    IF rows = <<>> THEN 0
    ELSE rows[Len(rows)].totalAmount + SumAmounts(SubSeq(rows, 1, Len(rows) - 1))

\* the place of a text among the texts of its column in ascending string order
StringRank(text) ==
    CASE text = "" -> 0
      [] text = "CREDIT" -> 1
      [] text = "IaaS Monthly" -> 2
      [] text = "IaaS Usage" -> 3
      [] text = "NEW" -> 4
      [] text = "ONE-TIME-CHARGE" -> 5
      [] text = "Platform Service Usage" -> 6
      [] text = "RECURRING" -> 7
      [] text = "REFUND" -> 8

\* i comes before j in the index order of the pivot table
IndexBefore(i, j) ==
    LET a == <<StringRank(i.Type), i.Portal_Invoice_Number, i.Service_Date_Start,
               i.Service_Date_End, StringRank(i.Recurring_Description)>>
        b == <<StringRank(j.Type), j.Portal_Invoice_Number, j.Service_Date_Start,
               j.Service_Date_End, StringRank(j.Recurring_Description)>>
    IN  \E k \in 1..5 : a[k] < b[k] /\ \A h \in 1..(k - 1) : a[h] = b[h]

\* i comes before j after sort_values(by=['Service_Date_Start',
\* "Portal_Invoice_Number"]), rows that tie keeping their index order
SortedBefore(i, j) ==
    \/ i.Service_Date_Start < j.Service_Date_Start
    \/ /\ i.Service_Date_Start = j.Service_Date_Start
       /\ i.Portal_Invoice_Number < j.Portal_Invoice_Number
    \/ /\ i.Service_Date_Start = j.Service_Date_Start
       /\ i.Portal_Invoice_Number = j.Portal_Invoice_Number
       /\ IndexBefore(i, j)

\* the members of a set of pivot indexes as a sequence in SortedBefore order
Sorted(S) ==
    [n \in 1..Cardinality(S) |->
        CHOOSE i \in S : Cardinality({j \in S : SortedBefore(j, i)}) = n - 1]

\* the rows of classicUsage of billing cycle i
ibminvoicemonth(classicUsage, i) ==
    SelectSeq(classicUsage, LAMBDA row : row.IBM_Invoice_Month = i)

\* pd.pivot_table(ibminvoicemonth, index=[...], values=["totalAmount"],
\* aggfunc=np.sum).sort_values(...): one row for each distinct index
SLICInvoice(classicUsage, i) ==
    LET rows == ibminvoicemonth(classicUsage, i)
        indexes == {PivotIndex(rows[k]) : k \in 1..Len(rows)}
        amounts(x) ==
            SelectSeq([k \in 1..Len(rows) |->
                          [index |-> PivotIndex(rows[k]), totalAmount |-> totalAmount(rows[k])]],
                      LAMBDA r : r.index = x)
        sorted == Sorted(indexes)
    IN  [n \in 1..Len(sorted) |->
            [index |-> sorted[n], totalAmount |-> SumAmounts(amounts(sorted[n]))]]

\* the keys of SLICInvoice.groupby('Type'), which sorts them
TypesOf(pivot) ==
    LET S == {pivot[n].index.Type : n \in 1..Len(pivot)}
    IN  [n \in 1..Cardinality(S) |->
            CHOOSE t \in S : Cardinality({u \in S : StringRank(u) < StringRank(t)}) = n - 1]

\* d.append(d.sum().rename((k, ' ', ' ', 'Subtotal', ' '))) for group k: the
\* rows of the group keep their index, the appended row has the new name
SubtotalBlock(pivot, k) ==
    LET d == SelectSeq(pivot, LAMBDA r : r.index.Type = k)
    IN  Append(d, [name |-> <<k, " ", " ", "Subtotal", " ">>,
                   totalAmount |-> SumAmounts(d)])

RECURSIVE concat(_)
\* pd.concat of a sequence of frames
concat(frames) ==
    IF frames = <<>> THEN <<>> ELSE Head(frames) \o concat(Tail(frames))

\* the rows of TopSheet-i: a block for each Type, then the total
TopSheet(classicUsage, i) ==
    LET pivot == SLICInvoice(classicUsage, i)
        keys == TypesOf(pivot)
    IN  Append(concat([n \in 1..Len(keys) |-> SubtotalBlock(pivot, keys[n])]),
               [name |-> <<" ", " ", " ", "Pay this Amount", "">>,
                totalAmount |-> SumAmounts(pivot)])

\* the sum of two exact quotients
FracAdd(a, b) == Frac(a[1] * b[2] + b[1] * a[2], a[2] * b[2])

\* the place of a category name among the category names in ascending
\* string order
CategoryRank(name) ==
    CASE name = "Computing Instance" -> 1
      [] name = "Endurance" -> 2
      [] name = "Guest Storage" -> 3
      [] name = "IBM Platform Service Plan Usage" -> 4
      [] name = "Performance" -> 5
      [] name = "Storage As A Service" -> 6

\* forecastR: the RECURRING rows of cycle invoicemonth, with totalAmount
forecastR(classicUsage, invoicemonth) ==
    LET rs == SelectSeq(classicUsage,
                        LAMBDA r : r.IBM_Invoice_Month = invoicemonth /\ r.Type = "RECURRING")
    IN  [k \in 1..Len(rs) |->
            [Category |-> rs[k].Category, totalAmount |-> totalAmount(rs[k]),
             NewEstimatedMonthly |-> Frac(0, 1)]]

\* forecastN: the NEW rows of cycle invoicemonth invoiced from newstart
\* (invoicemonth + "-01") to newend (invoicemonth + "-19"), with
\* NewEstimatedMonthly
forecastN(classicUsage, invoicemonth) ==
    LET rs == SelectSeq(classicUsage,
                        LAMBDA r : /\ r.IBM_Invoice_Month = invoicemonth
                                   /\ r.Type = "NEW"
                                   /\ r.Portal_Invoice_Date >= invoicemonth * 100 + 1
                                   /\ r.Portal_Invoice_Date <= invoicemonth * 100 + 19)
    IN  [k \in 1..Len(rs) |->
            [Category |-> rs[k].Category, totalAmount |-> 0,
             NewEstimatedMonthly |-> rs[k].NewEstimatedMonthly]]

RECURSIVE SumEstimates(_)
\* np.sum over the NewEstimatedMonthly of a sequence of rows
SumEstimates(rows) ==
    IF rows = <<>> THEN Frac(0, 1)
    ELSE FracAdd(rows[Len(rows)].NewEstimatedMonthly,
                 SumEstimates(SubSeq(rows, 1, Len(rows) - 1)))

\* a row of the forecast pivot: the three sums over rows
ForecastRow(name, rows) ==
    [Category |-> name,
     lastRecurringInvoice |-> SumAmounts(rows),
     NewEstimatedCharges |-> SumEstimates(rows),
     nextRecurring |-> FracAdd(Frac(SumAmounts(rows), 1), SumEstimates(rows))]

\* newForecast: a row for each Category of result in ascending order, then
\* the margin row Total
newForecast(result) ==
    LET S == {result[k].Category : k \in 1..Len(result)}
        sorted == [n \in 1..Cardinality(S) |->
                      CHOOSE c \in S :
                          Cardinality({b \in S : CategoryRank(b) < CategoryRank(c)}) = n - 1]
    IN  [n \in 1..Len(sorted) |->
            ForecastRow(sorted[n], SelectSeq(result, LAMBDA r : r.Category = sorted[n]))]
        \o <<ForecastRow("Total", result)>>

\* the recurringForecast sheet of the last cycle of months, if it has rows
recurringForecast(classicUsage) ==
    LET invoicemonth == months(classicUsage)[Len(months(classicUsage))]
        result == forecastR(classicUsage, invoicemonth)
                  \o forecastN(classicUsage, invoicemonth)
    IN  IF Len(result) > 0
        THEN <<[name |-> "recurringForecast", month |-> invoicemonth,
                rows |-> newForecast(result)]>>
        ELSE <<>>

\* the sheets writer.save() writes, in the order they are added
Report(classicUsage, usage) ==
    <<[name |-> "Detail", rows |-> classicUsage]>>
    \o [n \in 1..Len(months(classicUsage)) |->
           [name |-> "TopSheet", month |-> months(classicUsage)[n],
            rows |-> TopSheet(classicUsage, months(classicUsage)[n])]]
    \o recurringForecast(classicUsage)
    \o (IF Len(usage.rows) > 0
        THEN <<[name |-> "PaaS_Usage", rows |-> usage.rows]>>
        ELSE <<>>)

-----------------------------------------------------------------------------
(* main: arguments, getInvoiceDetail, getAccountId, accountUsage, createReport *)

\* -s / -e pairs: one cycle, three cycles over the turn of the year, and an
\* end before the start
RangeArgs == { <<202401, 202401>>, <<202312, 202402>>, <<202402, 202401>> }

\* -m values
MonthsArgs == {1, 2, 3}

\* the current date of a run with -m: either side of the cut-off, a month
\* end, and late December
Todays == { <<2024, 1, 19>>, <<2024, 1, 20>>, <<2024, 3, 31>>, <<2023, 12, 25>> }

\* the command lines: a range, a number of months, both, and each of the ways
\* to leave out a part of the range or the key
ArgSets ==
    { [IC_API_KEY |-> "apikey", startdate |-> r[1], enddate |-> r[2]] : r \in RangeArgs }
    \cup { [IC_API_KEY |-> "apikey", months |-> n] : n \in MonthsArgs }
    \cup { [IC_API_KEY |-> "apikey", months |-> 1, startdate |-> 202312, enddate |-> 202312],
           [IC_API_KEY |-> "apikey", startdate |-> 202401],
           [IC_API_KEY |-> "apikey", enddate |-> 202401],
           [IC_API_KEY |-> "apikey"],
           [startdate |-> 202401, enddate |-> 202401],
           [months |-> 1] }

\* the answers of get_account_usage: no resource, or one resource with one
\* plan and one usage entry
UsageResults ==
    { [resources |-> <<>>],
      [resources |->
          <<[resource_name |-> "cloud-object-storage", billable_cost |-> 1200,
             non_billable_cost |-> 0,
             plans |-> <<[plan_name |-> "standard",
                          usage |-> <<[unit |-> "GIGABYTE", quantity |-> 10,
                                       cost |-> 1200]>>]>>]>>] }

\* the first day of the month of a YYYY-MM label, as getInvoiceDates reads it
LabelDate(label, day) == <<label \div 100, label % 100, day>>

\* getInvoiceDates: <<startdate, enddate>> of the labels
getInvoiceDates(s, e) == <<relativedelta(LabelDate(s, 20), -1), LabelDate(e, 20)>>

\* date + relativedelta(days=1)
NextDay(d) ==
    IF d[3] < monthrange(d[1], d[2]) THEN <<d[1], d[2], d[3] + 1>>
    ELSE LET n == relativedelta(<<d[1], d[2], 1>>, 1) IN <<n[1], n[2], 1>>

paasEndOneMonthBack == relativedelta(enddate, -1)

\* paasEnd = enddate - relativedelta(months=2)
paasEnd == relativedelta(enddate, -2)

\* paasStart <= paasEnd + relativedelta(days=1)
UsageLoopContinues == strftimeYmd(paasStart) <= strftimeYmd(NextDay(paasEnd))

\* the rows accountUsage appends for one answer of get_account_usage
UsageRows(usage, usageMonth, recurringMonth) ==
    concat([i \in 1..Len(usage.resources) |->
      concat([j \in 1..Len(usage.resources[i].plans) |->
        [k \in 1..Len(usage.resources[i].plans[j].usage) |->
            [usageMonth |-> usageMonth,
             invoiceMonth |-> recurringMonth,
             resource_name |-> usage.resources[i].resource_name,
             billable_charges |-> usage.resources[i].billable_cost,
             non_billable_charges |-> usage.resources[i].non_billable_cost,
             plan_name |-> usage.resources[i].plans[j].plan_name,
             unit |-> usage.resources[i].plans[j].usage[k].unit,
             quantity |-> usage.resources[i].plans[j].usage[k].quantity,
             charges |-> usage.resources[i].plans[j].usage[k].cost]]])])

\* the variables of getInvoiceDetail
detailVars == <<invoiceList, invoiceIdx, invoiceID, invoiceDate, invoiceType,
                CFTSInvoiceDate, totalItems, serviceDateStart, serviceDateEnd,
                recurringDesc, offset, Billing_Invoice, df, raw, requests>>

InitMain ==
    /\ pc = "main"
    /\ args \in ArgSets
    /\ today \in (IF "months" \in DOMAIN args THEN Todays ELSE {<<2024, 1, 20>>})
    /\ invoiceList = <<>>
    /\ invoiceIdx = 0
    /\ invoiceID = 0
    /\ invoiceDate = Unbound
    /\ invoiceType = ""
    /\ CFTSInvoiceDate = 0
    /\ totalItems = 0
    /\ serviceDateStart = Unbound
    /\ serviceDateEnd = Unbound
    /\ recurringDesc = ""
    /\ offset = 0
    /\ Billing_Invoice = <<>>
    /\ df = <<>>
    /\ raw = <<>>
    /\ requests = <<>>
    /\ startdate = Unbound
    /\ enddate = Unbound
    /\ IC_ACCOUNT_ID = ""
    /\ paasStart = Unbound
    /\ paasUsage = EmptyUsage
    /\ report = <<>>
    /\ calls = <<>>
    /\ exitStatus = Running

RangeLabelsWhateverTheDay ==
    IF "months" \in DOMAIN args
    THEN <<strftimeYm(relativedelta(today, -(args.months - 1))), strftimeYm(today)>>
    ELSE <<args.startdate, args.enddate>>

\* <<startdate, enddate>> as labels, from -m and today or from -s and -e
RangeLabels ==
    IF "months" \in DOMAIN args
    THEN IF today[3] > 19
         THEN <<strftimeYm(relativedelta(today, -(args.months - 1))), strftimeYm(today)>>
         ELSE <<strftimeYm(relativedelta(today, -args.months)),
                strftimeYm(relativedelta(today, -1))>>
    ELSE <<args.startdate, args.enddate>>

\* neither -m nor both of -s and -e
RangeMissing ==
    /\ "months" \notin DOMAIN args
    /\ "startdate" \notin DOMAIN args \/ "enddate" \notin DOMAIN args

\* main down to the call of getInvoiceDetail
Main ==
    /\ pc = "main"
    /\ ~RangeMissing
    /\ "IC_API_KEY" \in DOMAIN args
    /\ startdate' = getInvoiceDates(RangeLabels[1], RangeLabels[2])[1]
    /\ enddate' = getInvoiceDates(RangeLabels[1], RangeLabels[2])[2]
    /\ pc' = "getInvoiceList"
    /\ UNCHANGED <<detailVars, args, today, IC_ACCOUNT_ID, paasStart, paasUsage,
                   report, calls, exitStatus>>

\* no range or no key: logging.error, quit()
MainQuits ==
    /\ pc = "main"
    /\ RangeMissing \/ "IC_API_KEY" \notin DOMAIN args
    /\ pc' = quit
    /\ exitStatus' = 0
    /\ UNCHANGED <<detailVars, mainVars, calls>>

\* getAccountId: the authenticator or the identity service raises ApiException
\* when constructed: quit()
GetAccountIdConstructionFails ==
    /\ pc = "done"
    /\ pc' = quit
    /\ exitStatus' = 0
    /\ UNCHANGED <<detailVars, mainVars, calls>>

\* getAccountId: get_api_keys_details raises ApiException: quit()
GetAccountIdFails ==
    /\ pc = "done"
    /\ calls' = Append(calls, Call("get_api_keys_details", FALSE))
    /\ pc' = quit
    /\ exitStatus' = 0
    /\ UNCHANGED <<detailVars, mainVars>>

\* getAccountId returns api_key["account_id"]
GetAccountId ==
    /\ pc = "done"
    /\ calls' = Append(calls, Call("get_api_keys_details", TRUE))
    /\ IC_ACCOUNT_ID' = "account_id"
    /\ pc' = "accountUsage"
    /\ UNCHANGED <<detailVars, args, today, startdate, enddate, paasStart, paasUsage,
                   report, exitStatus>>

\* accountUsage: the authenticator or the usage service raises ApiException
\* when constructed: return accountUsage, error
AccountUsageConstructionFails ==
    /\ pc = "accountUsage"
    /\ paasUsage' = [kind |-> "tuple", rows |-> <<>>, error |-> "API exception"]
    /\ pc' = "createReport"
    /\ UNCHANGED <<detailVars, args, today, startdate, enddate, IC_ACCOUNT_ID,
                   paasStart, report, calls, exitStatus>>

\* accountUsage down to the while loop
AccountUsage ==
    /\ pc = "accountUsage"
    /\ paasStart' = relativedelta(startdate, -1)
    /\ paasUsage' = EmptyUsage
    /\ pc' = "usage"
    /\ UNCHANGED <<detailVars, args, today, startdate, enddate, IC_ACCOUNT_ID,
                   report, calls, exitStatus>>

\* one turn of the while loop: get_account_usage answers
GetAccountUsage ==
    /\ pc = "usage"
    /\ UsageLoopContinues
    /\ calls' = Append(calls, UsageCall(strftimeYm(paasStart), TRUE))
    /\ \E usage \in UsageResults :
           paasUsage' =
               [paasUsage EXCEPT !.rows =
                   @ \o UsageRows(usage, strftimeYm(paasStart),
                                  strftimeYm(relativedelta(paasStart, 2)))]
    /\ paasStart' = relativedelta(paasStart, 1)
    /\ UNCHANGED <<pc, detailVars, args, today, startdate, enddate, IC_ACCOUNT_ID,
                   report, exitStatus>>

\* one turn of the while loop: get_account_usage raises ApiException: quit()
GetAccountUsageFails ==
    /\ pc = "usage"
    /\ UsageLoopContinues
    /\ calls' = Append(calls, UsageCall(strftimeYm(paasStart), FALSE))
    /\ pc' = quit
    /\ exitStatus' = 0
    /\ UNCHANGED <<detailVars, mainVars>>

\* the while loop ends: return accountUsage
AccountUsageReturns ==
    /\ pc = "usage"
    /\ ~UsageLoopContinues
    /\ pc' = "createReport"
    /\ UNCHANGED <<detailVars, mainVars, calls, exitStatus>>

\* createReport raises before writer.save(): months[-1] of an empty ledger
\* (IndexError), or paasUsage.to_excel of the tuple (AttributeError)
CreateReportRaises ==
    /\ pc = "createReport"
    /\ df = <<>> \/ paasUsage.kind = "tuple"
    /\ pc' = (IF df = <<>> THEN "IndexError" ELSE "AttributeError")
    /\ exitStatus' = 1
    /\ UNCHANGED <<detailVars, mainVars, calls>>

\* createReport down to writer.save(), and the end of main
CreateReport ==
    /\ pc = "createReport"
    /\ df # <<>>
    /\ paasUsage.kind = "DataFrame"
    /\ report' = Report(df, paasUsage)
    /\ pc' = "complete"
    /\ exitStatus' = 0
    /\ UNCHANGED <<detailVars, args, today, startdate, enddate, IC_ACCOUNT_ID,
                   paasStart, paasUsage, calls>>

NextMain ==
    \/ Main
    \/ MainQuits
    \/ GetInvoiceListFrom(MainLists)
    \/ GetInvoiceListFails
    \/ ReturnLedger
    \/ SkipInvoice
    \/ StartInvoice
    \/ EndInvoice
    \/ GetInvoiceTopLevelItems
    \/ GetInvoiceTopLevelItemsFails
    \/ AppendRow
    \/ ItemRaises
    \/ RowRaises
    \/ EndPage
    \/ GetAccountIdConstructionFails
    \/ GetAccountIdFails
    \/ GetAccountId
    \/ AccountUsageConstructionFails
    \/ AccountUsage
    \/ GetAccountUsage
    \/ GetAccountUsageFails
    \/ AccountUsageReturns
    \/ CreateReportRaises
    \/ CreateReport

SpecMain == InitMain /\ [][NextMain]_vars

-----------------------------------------------------------------------------
(* createReport on its own, over the ledgers of up to MaxLedger rows *)

\* the invoices of the ledgers: a RECURRING and a NEW invoice of cycle
\* 2024-01; a NEW invoice of 20 January, a CREDIT and a RECURRING invoice of
\* cycle 2024-02
ReportInvoices ==
    { [Portal_Invoice_Number |-> 1, Type |-> "RECURRING", Portal_Invoice_Date |-> 20240101,
       IBM_Invoice_Month |-> 202401, Service_Date_End |-> 20240131,
       Recurring_Description |-> "IaaS Monthly"],
      [Portal_Invoice_Number |-> 2, Type |-> "NEW", Portal_Invoice_Date |-> 20240105,
       IBM_Invoice_Month |-> 202401, Service_Date_End |-> 20240131,
       Recurring_Description |-> ""],
      [Portal_Invoice_Number |-> 3, Type |-> "NEW", Portal_Invoice_Date |-> 20240120,
       IBM_Invoice_Month |-> 202402, Service_Date_End |-> 20240131,
       Recurring_Description |-> ""],
      [Portal_Invoice_Number |-> 4, Type |-> "CREDIT", Portal_Invoice_Date |-> 20240125,
       IBM_Invoice_Month |-> 202402, Service_Date_End |-> 20240125,
       Recurring_Description |-> ""],
      [Portal_Invoice_Number |-> 5, Type |-> "RECURRING", Portal_Invoice_Date |-> 20240201,
       IBM_Invoice_Month |-> 202402, Service_Date_End |-> 20240229,
       Recurring_Description |-> "IaaS Monthly"] }

\* NewEstimatedMonthly of a row of invoice with the recurring charge
EstimateOf(invoice, recurringFee) ==
    LET date == <<invoice.Portal_Invoice_Date \div 10000,
                  (invoice.Portal_Invoice_Date \div 100) % 100,
                  invoice.Portal_Invoice_Date % 100>>
    IN  IF invoice.Type = "NEW"
        THEN Frac(recurringFee * monthrange(date[1], date[2]),
                  monthrange(date[1], date[2]) - date[3] + 1)
        ELSE Frac(0, 1)

\* the rows of an invoice: a monthly server or storage item, each at its
\* charge, or an hourly server item of the month before
ReportRows ==
    { [Service_Date_Start |-> invoice.Portal_Invoice_Date,
       Category |-> a[3],
       totalRecurringCharge |-> a[1], totalOneTimeAmount |-> a[2],
       NewEstimatedMonthly |-> EstimateOf(invoice, a[1])] @@ invoice :
        invoice \in ReportInvoices,
        a \in {<<10000, 0, "Computing Instance">>, <<2500, 500, "Storage As A Service">>} }
    \cup
    { [Service_Date_Start |-> 20231201, Service_Date_End |-> 20231231,
       Recurring_Description |-> "IaaS Usage",
       Category |-> "Computing Instance",
       totalRecurringCharge |-> 4500, totalOneTimeAmount |-> 0,
       NewEstimatedMonthly |-> EstimateOf(invoice, 4500)] @@ invoice :
        invoice \in ReportInvoices }

\* the rows of an invoice follow one another in a ledger
Contiguous(ledger) ==
    \A i, j \in 1..Len(ledger) :
        (i < j /\ ledger[i].Portal_Invoice_Number = ledger[j].Portal_Invoice_Number) =>
            \A k \in i..j : ledger[k].Portal_Invoice_Number = ledger[i].Portal_Invoice_Number

Ledgers ==
    { ledger \in UNION { [1..n -> ReportRows] : n \in 0..MaxLedger } : Contiguous(ledger) }

InitReport ==
    /\ pc = "createReport"
    /\ df \in Ledgers
    /\ args = [IC_API_KEY |-> "apikey", startdate |-> 202401, enddate |-> 202402]
    /\ today = <<2024, 1, 20>>
    /\ invoiceList = <<>>
    /\ invoiceIdx = 0
    /\ invoiceID = 0
    /\ invoiceDate = Unbound
    /\ invoiceType = ""
    /\ CFTSInvoiceDate = 0
    /\ totalItems = 0
    /\ serviceDateStart = Unbound
    /\ serviceDateEnd = Unbound
    /\ recurringDesc = ""
    /\ offset = 0
    /\ Billing_Invoice = <<>>
    /\ raw = <<>>
    /\ requests = <<>>
    /\ startdate = Unbound
    /\ enddate = Unbound
    /\ IC_ACCOUNT_ID = "account_id"
    /\ paasStart = Unbound
    /\ paasUsage = EmptyUsage
    /\ report = <<>>
    /\ calls = <<>>
    /\ exitStatus = Running

NextReport ==
    \/ CreateReportRaises
    \/ CreateReport

SpecReport == InitReport /\ [][NextReport]_vars

-----------------------------------------------------------------------------
(* main with -m on its own, over every date of Years and 1..MaxMonths months *)

InitRange ==
    /\ pc = "main"
    /\ args \in { [IC_API_KEY |-> "apikey", months |-> n] : n \in 1..MaxMonths }
    /\ today \in AllDates
    /\ invoiceList = <<>>
    /\ invoiceIdx = 0
    /\ invoiceID = 0
    /\ invoiceDate = Unbound
    /\ invoiceType = ""
    /\ CFTSInvoiceDate = 0
    /\ totalItems = 0
    /\ serviceDateStart = Unbound
    /\ serviceDateEnd = Unbound
    /\ recurringDesc = ""
    /\ offset = 0
    /\ Billing_Invoice = <<>>
    /\ df = <<>>
    /\ raw = <<>>
    /\ requests = <<>>
    /\ startdate = Unbound
    /\ enddate = Unbound
    /\ IC_ACCOUNT_ID = ""
    /\ paasStart = Unbound
    /\ paasUsage = EmptyUsage
    /\ report = <<>>
    /\ calls = <<>>
    /\ exitStatus = Running

SpecRange == InitRange /\ [][Main]_vars

\* the -s and -e labels of the runs that query a window: one to three labels,
\* across the year end
WindowArgs ==
    { r \in {202312, 202401, 202402} \X {202312, 202401, 202402} : r[1] <= r[2] }

\* the times of day of createDate, in seconds after 00:00:00
Seconds == {0, 1, 86399}

\* createDate of the invoices of the account, in the reference time zone: a
\* date and a time of day
Timestamps ==
    { t \in Years \X (1..12) \X {1, 19, 20, 28} \X Seconds : TRUE }

\* a <= b for two timestamps
NotAfter(a, b) ==
    \/ strftimeYmd(a) < strftimeYmd(b)
    \/ strftimeYmd(a) = strftimeYmd(b) /\ a[4] <= b[4]

\* the filter of Account::getInvoices: createDate betweenDate startDate and
\* endDate, each formatted "%m/%d/%Y %H:%M:%S", 00:00:00 on its day; the
\* request does not leave out either end
betweenDate(t, startDate, endDate) ==
    /\ NotAfter(<<startDate[1], startDate[2], startDate[3], 0>>, t)
    /\ NotAfter(t, <<endDate[1], endDate[2], endDate[3], 0>>)

\* getInvoiceList: an invoice of the account that passes the filter
GetInvoiceListBetween ==
    /\ pc = "getInvoiceList"
    /\ \E t \in Timestamps, type \in {"NEW", "RECURRING"} :
          /\ betweenDate(t, startdate, enddate)
          /\ invoiceList' = <<[createTime |-> t[4]]
                                @@ Invoice(1, Shape(<<t[1], t[2], t[3]>>, type, 10000), 1)>>
    /\ invoiceIdx' = 1
    /\ pc' = "invoice"
    /\ UNCHANGED <<invoiceID, invoiceDate, invoiceType, CFTSInvoiceDate, totalItems,
                   serviceDateStart, serviceDateEnd, recurringDesc, offset,
                   Billing_Invoice, df, raw, requests>>
    /\ calls' = Append(calls, Call("Account::getInvoices", TRUE))
    /\ UNCHANGED <<mainVars, exitStatus>>

InitWindow ==
    /\ pc = "main"
    /\ args \in { [IC_API_KEY |-> "apikey", startdate |-> r[1], enddate |-> r[2]] :
                    r \in WindowArgs }
    /\ today = <<2024, 1, 20>>
    /\ invoiceList = <<>>
    /\ invoiceIdx = 0
    /\ invoiceID = 0
    /\ invoiceDate = Unbound
    /\ invoiceType = ""
    /\ CFTSInvoiceDate = 0
    /\ totalItems = 0
    /\ serviceDateStart = Unbound
    /\ serviceDateEnd = Unbound
    /\ recurringDesc = ""
    /\ offset = 0
    /\ Billing_Invoice = <<>>
    /\ df = <<>>
    /\ raw = <<>>
    /\ requests = <<>>
    /\ startdate = Unbound
    /\ enddate = Unbound
    /\ IC_ACCOUNT_ID = ""
    /\ paasStart = Unbound
    /\ paasUsage = EmptyUsage
    /\ report = <<>>
    /\ calls = <<>>
    /\ exitStatus = Running

NextWindow ==
    \/ Main
    \/ GetInvoiceListBetween
    \/ StartInvoice

SpecWindow == InitWindow /\ [][NextWindow]_vars

-----------------------------------------------------------------------------
(* GetReccuringInvoices.py: the report of RECURRING invoices printed line by *)
(* line. report holds the printed lines of the invoices; a string that is    *)
(* compared as a string is the sequence of its character codes.              *)

MaxItems == 2

\* a < b for two strings, as Python compares them: code by code, a proper
\* prefix first
RECURSIVE StringLess(_, _)
StringLess(a, b) ==
    IF b = <<>> THEN FALSE
    ELSE IF a = <<>> THEN TRUE
    ELSE IF Head(a) # Head(b) THEN Head(a) < Head(b)
    ELSE StringLess(Tail(a), Tail(b))

\* the number a sequence of digits writes
RECURSIVE DigitsValue(_)
DigitsValue(s) ==
    IF s = <<>> THEN 0
    ELSE DigitsValue(SubSeq(s, 1, Len(s) - 1)) * 10 + (s[Len(s)] - 48)

\* float() of an amount string with at most two decimals, in cents
float(s) ==
    LET negative == s # <<>> /\ s[1] = 45
        body == IF negative THEN Tail(s) ELSE s
        dots == {k \in 1..Len(body) : body[k] = 46}
        dot == IF dots = {} THEN Len(body) + 1 ELSE CHOOSE k \in dots : TRUE
        decimals == SubSeq(body, dot + 1, Len(body))
        cents == DigitsValue(SubSeq(body, 1, dot - 1)) * 100
                 + (IF Len(decimals) = 1 THEN DigitsValue(decimals) * 10
                    ELSE DigitsValue(decimals))
    IN  IF negative THEN 0 - cents ELSE cents

\* invoiceTotalAmount as the service writes it: "0", "0.00", "100.00",
\* "250.00", "-5.00"
TotalAmounts ==
    { <<48>>, <<48, 46, 48, 48>>, <<49, 48, 48, 46, 48, 48>>,
      <<50, 53, 48, 46, 48, 48>>, <<45, 53, 46, 48, 48>> }

\* Billing_Invoice['invoiceTotalAmount'] > "0"
TotalAboveZero(total) == StringLess(<<48>>, total)

\* getTopLevelCategories: categoryCode and name
topLevelCategories ==
    << [categoryCode |-> "guest_core", name |-> "Computing Instance"],
       [categoryCode |-> "server", name |-> "Server"] >>

\* getAssociatedChildren of an item: none, a child with an hourly fee, a
\* child without one
AssociatedChildren ==
    { <<>>,
      <<[recurringFee |-> 500, hourlyRecurringFee |-> 700]>>,
      <<[recurringFee |-> 500]>> }

\* invoiceTopLevelItems: hourly instances of 720 and of 360 hours, an item
\* with an hourlyRecurringFee of 0, a monthly server and a monthly item
\* without a fee
RecurringItems ==
    { [hostName |-> "vsi", domainName |-> "example.com", categoryCode |-> "guest_core",
       recurringFee |-> f[1], hourlyRecurringFee |-> f[2], children |-> ch] :
          f \in {<<1800, 2500>>, <<900, 2500>>, <<0, 0>>}, ch \in AssociatedChildren }
    \cup
    { [categoryCode |-> c, recurringFee |-> f, children |-> ch] :
          c \in {"server", "vlan"}, f \in {10000, 0}, ch \in AssociatedChildren }

\* the invoices of the account between the two dates, with their top level
\* items: RECURRING invoices of every total, and a NEW one
RecurringInvoices ==
    { [id |-> 1, createDate |-> <<2024, 1, 1>>, typeCode |-> type,
       invoiceTotalAmount |-> total, invoiceTotalRecurringAmount |-> total,
       invoiceTopLevelItems |-> items] :
          type \in {"RECURRING"}, total \in TotalAmounts,
          items \in UNION { [1..n -> RecurringItems] : n \in 0..MaxItems } }
    \cup
    { [id |-> 1, createDate |-> <<2024, 1, 5>>, typeCode |-> "NEW",
       invoiceTotalAmount |-> <<49, 48, 48, 46, 48, 48>>,
       invoiceTotalRecurringAmount |-> <<49, 48, 48, 46, 48, 48>>,
       invoiceTopLevelItems |-> <<>>] }

\* hostName of the printed line
RecurringHostName(item) ==
    IF "hostName" \in DOMAIN item THEN <<item.hostName, ".", item.domainName>>
    ELSE <<"Unnamed Device">>

\* category of the printed line: the name of the top level category of the
\* item's code, the code itself when there is none
RecurringCategory(item) ==
    LET found == SelectSeq(topLevelCategories,
                           LAMBDA c : c.categoryCode = item.categoryCode)
    IN  IF found = <<>> THEN item.categoryCode ELSE found[Len(found)].name

\* recurringFee after the fees of the children are added
RECURSIVE FeeWithChildren(_, _)
FeeWithChildren(recurringFee, children) ==
    IF children = <<>> THEN recurringFee
    ELSE FeeWithChildren(recurringFee + Head(children).recurringFee, Tail(children))

\* hourlyRecurringFee after the children: added to for a child that has the
\* key, set to 0 by a child that has not
RECURSIVE HourlyFeeWithChildren(_, _)
HourlyFeeWithChildren(hourlyRecurringFee, children) ==
    IF children = <<>> THEN hourlyRecurringFee
    ELSE HourlyFeeWithChildren(
             IF "hourlyRecurringFee" \in DOMAIN Head(children)
             THEN hourlyRecurringFee + Head(children).hourlyRecurringFee
             ELSE 0,
             Tail(children))

\* the division of the hours raises ZeroDivisionError
HoursRaise(item) == item.hourlyRecurringFee = 0

\* the totals before the first item of the hourly loop
HourlyStart ==
    [hourlyRecurringTotal |-> 0, totalHours |-> 0, totalItems |-> 0,
     maxHours |-> 0, maxRecurringFee |-> 0,
     minHours |-> 999999, minRecurringFee |-> 0,
     lines |-> <<>>, raised |-> FALSE]

\* one pass of the hourly loop
HourlyItem(acc, item) ==
    IF acc.raised \/ "hourlyRecurringFee" \notin DOMAIN item THEN acc
    ELSE IF HoursRaise(item) THEN [acc EXCEPT !.raised = TRUE]
    ELSE LET hours == HoursOf(item.recurringFee, item.hourlyRecurringFee)
             recurringFee == FeeWithChildren(item.recurringFee, item.children)
             hourlyRecurringFee ==
                 HourlyFeeWithChildren(item.hourlyRecurringFee, item.children)
         IN  [hourlyRecurringTotal |-> acc.hourlyRecurringTotal + recurringFee,
              totalHours |-> acc.totalHours + hours,
              totalItems |-> acc.totalItems + 1,
              maxHours |-> IF hours > acc.maxHours THEN hours ELSE acc.maxHours,
              maxRecurringFee |-> IF hours > acc.maxHours THEN recurringFee
                                  ELSE acc.maxRecurringFee,
              minHours |-> IF hours < acc.minHours THEN hours ELSE acc.minHours,
              minRecurringFee |-> IF hours < acc.minHours THEN recurringFee
                                  ELSE acc.minRecurringFee,
              lines |-> Append(acc.lines,
                               [line |-> "hourly item",
                                hostName |-> RecurringHostName(item),
                                category |-> RecurringCategory(item),
                                hours |-> hours,
                                hourlyRecurringFee |-> Round(hourlyRecurringFee, 100),
                                recurringFee |-> recurringFee]),
              raised |-> FALSE]

\* the hourly loop over the items
RECURSIVE HourlyLoop(_, _)
HourlyLoop(acc, items) ==
    IF items = <<>> THEN acc ELSE HourlyLoop(HourlyItem(acc, Head(items)), Tail(items))

\* the three lines that come before the average: the totals, the line of
\* the minimum (printed as "Hourly Max") and the line of the maximum
HourlyTotals(acc) ==
    << [line |-> "Hourly Totals", totalItems |-> acc.totalItems,
        totalHours |-> acc.totalHours, hourlyRecurringTotal |-> acc.hourlyRecurringTotal],
       [line |-> "Hourly Max", hours |-> acc.minHours, recurringFee |-> acc.minRecurringFee],
       [line |-> "Hourly Max", hours |-> acc.maxHours, recurringFee |-> acc.maxRecurringFee] >>

\* the division of the average raises ZeroDivisionError
AverageRaises(acc) == acc.totalItems = 0

\* the line of the average
HourlyAverage(acc) ==
    [line |-> "Hourly Average", hours |-> Frac(acc.totalHours, acc.totalItems),
     recurringFee |-> Round(acc.hourlyRecurringTotal, acc.totalItems)]

\* the items of the monthly section
MonthlyItems(items) ==
    SelectSeq(items, LAMBDA item : "hourlyRecurringFee" \notin DOMAIN item
                                   /\ item.recurringFee > 0)

\* the lines of the monthly section and its total
MonthlySection(items) ==
    LET monthly == MonthlyItems(items)
        fees == [k \in 1..Len(monthly) |->
                    FeeWithChildren(monthly[k].recurringFee, monthly[k].children)]
    IN  [k \in 1..Len(monthly) |->
            [line |-> "monthly item",
             hostName |-> RecurringHostName(monthly[k]),
             category |-> RecurringCategory(monthly[k]),
             hours |-> 0, hourlyRecurringFee |-> 0, recurringFee |-> fees[k]]]
        \o <<[line |-> "Monthly totals",
              monthlyRecurringTotal |-> SumAmounts([k \in 1..Len(fees) |->
                                                       [totalAmount |-> fees[k]]])]>>

\* the summary line of the invoice
SummaryLine(invoice) ==
    [line |-> "invoice", id |-> invoice.id,
     createDate |-> strftimeYmd(invoice.createDate),
     invoiceTotalAmount |-> float(invoice.invoiceTotalAmount),
     invoiceTotalRecurringAmount |-> float(invoice.invoiceTotalRecurringAmount),
     typeCode |-> invoice.typeCode]

InitRecurring ==
    /\ pc = "getInvoices"
    /\ invoiceList = <<>>
    /\ invoiceIdx = 0
    /\ invoiceID = 0
    /\ invoiceDate = Unbound
    /\ invoiceType = ""
    /\ CFTSInvoiceDate = 0
    /\ totalItems = 0
    /\ serviceDateStart = Unbound
    /\ serviceDateEnd = Unbound
    /\ recurringDesc = ""
    /\ offset = 0
    /\ Billing_Invoice = <<>>
    /\ df = <<>>
    /\ raw = <<>>
    /\ requests = <<>>
    /\ args = [username |-> "user", apikey |-> "apikey"]
    /\ today = <<2024, 1, 20>>
    /\ startdate = <<2024, 1, 1>>
    /\ enddate = <<2024, 1, 31>>
    /\ IC_ACCOUNT_ID = ""
    /\ paasStart = Unbound
    /\ paasUsage = EmptyUsage
    /\ report = <<>>
    /\ calls = <<>>
    /\ exitStatus = Running

\* InvoiceList = client['Account'].getInvoices(...)
GetInvoices ==
    /\ pc = "getInvoices"
    /\ \E invoice \in RecurringInvoices : invoiceList' = <<invoice>>
    /\ invoiceIdx' = 1
    /\ pc' = "InvoiceList"
    /\ calls' = Append(calls, Call("Account::getInvoices", TRUE))
    /\ UNCHANGED <<invoiceID, Billing_Invoice, report, exitStatus>>
    /\ UNCHANGED <<invoiceDate, invoiceType, CFTSInvoiceDate, totalItems, serviceDateStart,
                   serviceDateEnd, recurringDesc, offset, df, raw, requests, args, today,
                   startdate, enddate, IC_ACCOUNT_ID, paasStart, paasUsage>>

\* an invoice that is not RECURRING: the next invoice
OtherInvoice ==
    /\ pc = "InvoiceList"
    /\ invoiceIdx <= Len(invoiceList)
    /\ invoiceList[invoiceIdx].typeCode # "RECURRING"
    /\ invoiceIdx' = invoiceIdx + 1
    /\ UNCHANGED <<pc, invoiceList, invoiceID, Billing_Invoice, report, calls, exitStatus>>
    /\ UNCHANGED <<invoiceDate, invoiceType, CFTSInvoiceDate, totalItems, serviceDateStart,
                   serviceDateEnd, recurringDesc, offset, df, raw, requests, args, today,
                   startdate, enddate, IC_ACCOUNT_ID, paasStart, paasUsage>>

\* a RECURRING invoice whose total is not above "0": read, nothing printed
NoTotal ==
    /\ pc = "InvoiceList"
    /\ invoiceIdx <= Len(invoiceList)
    /\ invoiceList[invoiceIdx].typeCode = "RECURRING"
    /\ ~TotalAboveZero(invoiceList[invoiceIdx].invoiceTotalAmount)
    /\ invoiceID' = invoiceList[invoiceIdx].id
    /\ Billing_Invoice' = invoiceList[invoiceIdx]
    /\ calls' = Append(calls, Call("Billing_Invoice::getObject", TRUE))
    /\ invoiceIdx' = invoiceIdx + 1
    /\ UNCHANGED <<pc, invoiceList, report, exitStatus>>
    /\ UNCHANGED <<invoiceDate, invoiceType, CFTSInvoiceDate, totalItems, serviceDateStart,
                   serviceDateEnd, recurringDesc, offset, df, raw, requests, args, today,
                   startdate, enddate, IC_ACCOUNT_ID, paasStart, paasUsage>>

\* a RECURRING invoice with a total above "0": the summary line, the hourly
\* section and the monthly section
PrintInvoice ==
    /\ pc = "InvoiceList"
    /\ invoiceIdx <= Len(invoiceList)
    /\ invoiceList[invoiceIdx].typeCode = "RECURRING"
    /\ TotalAboveZero(invoiceList[invoiceIdx].invoiceTotalAmount)
    /\ LET invoice == invoiceList[invoiceIdx]
           acc == HourlyLoop(HourlyStart, invoice.invoiceTopLevelItems)
       IN  /\ ~acc.raised
           /\ ~AverageRaises(acc)
           /\ report' = report \o <<SummaryLine(invoice)>> \o acc.lines
                          \o HourlyTotals(acc) \o <<HourlyAverage(acc)>>
                          \o MonthlySection(invoice.invoiceTopLevelItems)
           /\ invoiceID' = invoice.id
           /\ Billing_Invoice' = invoice
    /\ calls' = Append(calls, Call("Billing_Invoice::getObject", TRUE))
    /\ invoiceIdx' = invoiceIdx + 1
    /\ UNCHANGED <<pc, invoiceList, exitStatus>>
    /\ UNCHANGED <<invoiceDate, invoiceType, CFTSInvoiceDate, totalItems, serviceDateStart,
                   serviceDateEnd, recurringDesc, offset, df, raw, requests, args, today,
                   startdate, enddate, IC_ACCOUNT_ID, paasStart, paasUsage>>

\* the same invoice when a division raises ZeroDivisionError: the lines
\* printed before it, then the traceback
PrintInvoiceRaises ==
    /\ pc = "InvoiceList"
    /\ invoiceIdx <= Len(invoiceList)
    /\ invoiceList[invoiceIdx].typeCode = "RECURRING"
    /\ TotalAboveZero(invoiceList[invoiceIdx].invoiceTotalAmount)
    /\ LET invoice == invoiceList[invoiceIdx]
           acc == HourlyLoop(HourlyStart, invoice.invoiceTopLevelItems)
       IN  /\ acc.raised \/ AverageRaises(acc)
           /\ report' = report \o <<SummaryLine(invoice)>> \o acc.lines
                          \o (IF acc.raised THEN <<>> ELSE HourlyTotals(acc))
           /\ invoiceID' = invoice.id
           /\ Billing_Invoice' = invoice
    /\ calls' = Append(calls, Call("Billing_Invoice::getObject", TRUE))
    /\ pc' = "ZeroDivisionError"
    /\ exitStatus' = 1
    /\ UNCHANGED <<invoiceList, invoiceIdx>>
    /\ UNCHANGED <<invoiceDate, invoiceType, CFTSInvoiceDate, totalItems, serviceDateStart,
                   serviceDateEnd, recurringDesc, offset, df, raw, requests, args, today,
                   startdate, enddate, IC_ACCOUNT_ID, paasStart, paasUsage>>

\* the end of InvoiceList and of the script
EndOfInvoiceList ==
    /\ pc = "InvoiceList"
    /\ invoiceIdx > Len(invoiceList)
    /\ pc' = "complete"
    /\ exitStatus' = 0
    /\ UNCHANGED <<invoiceList, invoiceIdx, invoiceID, Billing_Invoice, report, calls>>
    /\ UNCHANGED <<invoiceDate, invoiceType, CFTSInvoiceDate, totalItems, serviceDateStart,
                   serviceDateEnd, recurringDesc, offset, df, raw, requests, args, today,
                   startdate, enddate, IC_ACCOUNT_ID, paasStart, paasUsage>>

NextRecurring ==
    \/ GetInvoices
    \/ OtherInvoice
    \/ NoTotal
    \/ PrintInvoice
    \/ PrintInvoiceRaises
    \/ EndOfInvoiceList

SpecRecurring == InitRecurring /\ [][NextRecurring]_vars

-----------------------------------------------------------------------------
(* Descriptions *)

\* the children of ch that carry categoryCode code, in order
Matching(code, ch) ==
    SelectSeq(ch, LAMBDA c : "categoryCode" \in DOMAIN c /\ c.categoryCode = code)

\* the trimmed product text of the first child with code, empty if none
ProductTextOf(code, ch) ==
    IF Matching(code, ch) = <<>> THEN <<>>
    ELSE strip(Matching(code, ch)[1].product.description)

\* the trimmed text of the first child with code, empty if none
TextOf(code, ch) ==
    IF Matching(code, ch) = <<>> THEN <<>>
    ELSE strip(Matching(code, ch)[1].description)

\* C11: the Description of every row of a storage_service_enterprise item is
\* the storage text (first performance_storage_space child), a space, the
\* tier text (first storage_tier_level child), and then a single space when
\* there is no storage_snapshot_space child or its text is empty, " with "
\* and the snapshot text otherwise: "1000GB" and "Tier 1" give
\* "1000GB Tier 1 ", and with snapshot "200GB" "1000GB Tier 1 with 200GB".
\* Nothing of the item's own product description appears in it.
C11_EnterpriseDescription ==
    \A i \in 1..Len(df) :
        ItemOf(i).categoryCode = "storage_service_enterprise" =>
            LET ch == ItemOf(i).children
                storage == ProductTextOf("performance_storage_space", ch)
                iops == ProductTextOf("storage_tier_level", ch)
                snapshot == ProductTextOf("storage_snapshot_space", ch)
                d == df[i].Description
            IN  /\ snapshot = <<>> => d = storage \o <<" ">> \o iops \o <<" ">>
                /\ snapshot # <<>> =>
                       d = storage \o <<" ">> \o iops \o <<" ", "with", " ">> \o snapshot
                /\ (storage = <<"1000GB">> /\ iops = <<"Tier", " ", "1">>) =>
                       IF snapshot = <<"200GB">>
                       THEN d = <<"1000GB", " ", "Tier", " ", "1", " ", "with", " ", "200GB">>
                       ELSE snapshot = <<>> => d = <<"1000GB", " ", "Tier", " ", "1", " ">>
                /\ \A k \in 1..Len(d) : d[k] \notin {"2.0", "GHz"}

\* an enterprise storage row described "1000GB Tier 1 with 200GB"
C11_Witness ==
    \E i \in 1..Len(df) :
        /\ ItemOf(i).categoryCode = "storage_service_enterprise"
        /\ df[i].Description =
               <<"1000GB", " ", "Tier", " ", "1", " ", "with", " ", "200GB">>

\* an enterprise storage row whose snapshot child has a blank text, described
\* "1000GB Tier 1 " with the trailing space
C11_WitnessBlankSnapshot ==
    \E i \in 1..Len(df) :
        /\ ItemOf(i).categoryCode = "storage_service_enterprise"
        /\ Matching("storage_snapshot_space", ItemOf(i).children) # <<>>
        /\ df[i].Description = <<"1000GB", " ", "Tier", " ", "1", " ">>

\* C12: the Description of every row of a storage_as_a_service item, with
\* model "Hourly" for an hourly item and "Monthly" otherwise, is
\* "{model} File Storage" when the space text or the tier text is missing or
\* empty, and otherwise "{model} File Storage {space} at {tier}", followed by
\* " with " and the snapshot child's text exactly when the item has a
\* storage_snapshot_space child.
C12_FileStorageDescription ==
    \A i \in 1..Len(df) :
        ItemOf(i).categoryCode = "storage_as_a_service" =>
            LET ch == ItemOf(i).children
                model == IF ItemOf(i).hourlyFlag THEN "Hourly" ELSE "Monthly"
                space == TextOf("performance_storage_space", ch)
                tier == ProductTextOf("storage_tier_level", ch)
                base == <<model, " ", "File", " ", "Storage">>
                full == base \o <<" ">> \o space \o <<" ", "at", " ">> \o tier
            IN  df[i].Description =
                    (IF space = <<>> \/ tier = <<>> THEN base
                     ELSE IF Matching("storage_snapshot_space", ch) = <<>> THEN full
                     ELSE full \o <<" ", "with", " ">>
                          \o TextOf("storage_snapshot_space", ch))

\* a storage_as_a_service row with space, tier and snapshot, described
\* "Monthly File Storage 500 GBs at Tier 1 with 20 GBs"
C12_Described ==
    \E i \in 1..Len(df) :
        /\ ItemOf(i).categoryCode = "storage_as_a_service"
        /\ df[i].Description =
               <<"Monthly", " ", "File", " ", "Storage", " ", "500", " ", "GBs",
                 " ", "at", " ", "Tier", " ", "1", " ", "with", " ", "20", " ", "GBs">>

\* a storage_as_a_service row whose item has a snapshot child, described
\* without it
C12_SnapshotLeftOut ==
    \E i \in 1..Len(df) :
        /\ ItemOf(i).categoryCode = "storage_as_a_service"
        /\ Matching("storage_snapshot_space", ItemOf(i).children) # <<>>
        /\ df[i].Description =
               <<"Monthly", " ", "File", " ", "Storage", " ", "500", " ", "GBs",
                 " ", "at", " ", "Tier", " ", "1">>

\* C13: a line item or child with a missing field never aborts the run: no
\* lookup raises, and the row of an item without hostName has an empty
\* hostName, the row of an item without domainName has the bare hostName,
\* the row of an item without a child of a looked-up category has an empty
\* Memory or OS, and a child without categoryCode is passed over.
C13_MissingFieldNeverAborts ==
    /\ pc # "KeyError"
    /\ \A i \in 1..Len(df) :
           LET item == ItemOf(i)
           IN  /\ "hostName" \notin DOMAIN item => df[i].hostName = <<>>
               /\ ("hostName" \in DOMAIN item /\ "domainName" \notin DOMAIN item) =>
                      df[i].hostName = item.hostName
               /\ Matching("ram", item.children) = <<>> => df[i].Memory = <<>>
               /\ Matching("os", item.children) = <<>> => df[i].OS = <<>>
               /\ "hourlyRecurringFee" \notin DOMAIN item => df[i].HourlyRate = 0

\* the run is aborted by a child that matches a lookup and lacks the text the
\* lookup reads, before the row of its item is appended
C13_Aborted ==
    /\ pc = "KeyError"
    /\ Billing_Invoice # <<>>
    /\ Len(df) < Head(Billing_Invoice).billingItemId

-----------------------------------------------------------------------------
(* Pagination *)

\* the offsets requested so far for invoice id, in order
OffsetsOf(id) ==
    LET rs == SelectSeq(requests, LAMBDA r : r[1] = id)
    IN  [k \in 1..Len(rs) |-> rs[k][2]]

\* the BillingItemIds of the rows appended so far for invoice id, in order
RowsOf(id) ==
    LET rs == SelectSeq(df, LAMBDA r : r.Portal_Invoice_Number = id)
    IN  [k \in 1..Len(rs) |-> rs[k].BillingItemId]

\* C20: for every invoice of non-zero total with n top-level items, the
\* line-item requests are at offsets 0, 250, 500, ..., each below n (none
\* when n = 0); the rows appended are the items returned, one row each and in
\* the order returned, every page being appended whole before the next
\* request; and once the invoice is done there is exactly one row for each
\* of its n items.
C20_Pagination ==
    \A v \in 1..Len(invoiceList) :
        LET id == invoiceList[v].id
            n == invoiceList[v].invoiceTopLevelItemCount
            offsets == OffsetsOf(id)
            rows == RowsOf(id)
        IN  invoiceList[v].invoiceTotalAmount # 0 =>
                /\ \A k \in 1..Len(offsets) :
                       offsets[k] = (k - 1) * 250 /\ offsets[k] < n
                /\ \A j \in 1..Len(rows) : rows[j] = j
                /\ Len(rows) <= n
                /\ Len(rows) <= Len(offsets) * 250
                /\ Len(rows) >= (Len(offsets) - 1) * 250
                /\ (v = invoiceIdx /\ pc = "item") =>
                       Len(rows) + Len(Billing_Invoice) =
                           (IF Len(offsets) * 250 < n THEN Len(offsets) * 250 ELSE n)
                /\ (v < invoiceIdx \/ pc = "done") =>
                       /\ Len(rows) = n
                       /\ Len(offsets) = (n + 249) \div 250

\* an invoice of 501 items done: requests at 0, 250 and 500, 501 rows
C20_Witness ==
    /\ pc = "done"
    /\ invoiceList[1].invoiceTopLevelItemCount = 501
    /\ requests = <<<<1, 0>>, <<1, 250>>, <<1, 500>>>>
    /\ Len(df) = 501

-----------------------------------------------------------------------------
(* Failures and outcomes of a run *)

\* every API request issued so far was answered
AllAnswered == \A k \in 1..Len(calls) : calls[k].ok

\* C14: when an API request fails (Account::getInvoices,
\* Billing_Invoice::getInvoiceTopLevelItems, get_api_keys_details of the
\* account-id lookup, get_account_usage) the run terminates: the failed
\* request is the last request of the run, which has ended, and no step is
\* taken after it, so it is not retried and no other request follows.
C14_FailureIsFatal ==
    /\ [](\A k \in 1..Len(calls) :
              ~calls[k].ok => k = Len(calls) /\ pc = "quit" /\ exitStatus # Running)
    /\ [][AllAnswered]_vars

\* a run that ended at a failed get_account_usage after four answered
\* requests, one of them a get_account_usage
C14_Witness ==
    /\ Len(calls) >= 5
    /\ ~calls[Len(calls)].ok
    /\ calls[Len(calls)].api = "get_account_usage"
    /\ calls[Len(calls) - 1].api = "get_account_usage"
    /\ calls[Len(calls) - 1].ok
    /\ pc = "quit"

\* C15: a run ends either with both ledgers complete and the report written,
\* or aborted with no report written; and createReport is never entered with
\* a ledger that an upstream failure left incomplete or malformed: whenever
\* the run stands at createReport every request was answered and paasUsage
\* is the DataFrame of the usage rows.
C15_NoPartialSuccess ==
    /\ pc = "createReport" => AllAnswered /\ paasUsage.kind = "DataFrame"
    /\ report # <<>> =>
           pc = "complete" /\ AllAnswered /\ paasUsage.kind = "DataFrame"
    /\ (exitStatus # Running /\ pc # "complete") => report = <<>>

\* createReport entered with the tuple accountUsage returns when a service
\* object cannot be constructed
C15_MalformedLedgerReported ==
    /\ pc = "createReport"
    /\ paasUsage.kind = "tuple"
    /\ df # <<>>

\* C16: a run that ends at quit(), which is how a missing credential, a
\* missing date range and every failed API request end it, has a non-zero
\* exit status.
C16_NonZeroExit ==
    pc = "quit" => exitStatus # Running /\ exitStatus # 0

\* a run without IC_API_KEY, ended by quit() with exit status 0
C16_QuitWithZero ==
    /\ pc = "quit"
    /\ "IC_API_KEY" \notin DOMAIN args
    /\ calls = <<>>
    /\ exitStatus = 0

-----------------------------------------------------------------------------
(* TopSheets *)

RECURSIVE SumOf(_)
\* the sum of a sequence of numbers
SumOf(s) == IF s = <<>> THEN 0 ELSE Head(s) + SumOf(Tail(s))

\* the amounts of the rows of sheet whose name says what (Subtotal, Pay this
\* Amount), in order
NamedAmounts(sheet, what) ==
    LET rs == SelectSeq(sheet.rows, LAMBDA r : "name" \in DOMAIN r /\ r.name[4] = what)
    IN  [k \in 1..Len(rs) |-> rs[k].totalAmount]

\* the rows of sheet that stand for a group of ledger rows
GroupRows(sheet) == SelectSeq(sheet.rows, LAMBDA r : "index" \in DOMAIN r)

\* the recurring plus one-time charge of every ledger row of cycle L, in order
FlatAmounts(L) ==
    LET rs == SelectSeq(df, LAMBDA r : r.IBM_Invoice_Month = L)
    IN  [k \in 1..Len(rs) |-> rs[k].totalRecurringCharge + rs[k].totalOneTimeAmount]

\* the TopSheets of the report written
TopSheets == SelectSeq(report, LAMBDA sheet : sheet.name = "TopSheet")

\* C17: in the TopSheet of every billing cycle L the Subtotal rows add up to
\* the one Pay this Amount row, and both equal the flat sum of
\* totalRecurringCharge + totalOneTimeAmount over the ledger rows of L; the
\* group rows add up to the same sum, every ledger row of L falls in exactly
\* one group row, and there is a TopSheet for every cycle of the ledger.
C17_TopSheetReconciles ==
    /\ \A n \in 1..Len(TopSheets) :
           LET sheet == TopSheets[n]
               L == sheet.month
               flat == SumOf(FlatAmounts(L))
               groups == GroupRows(sheet)
           IN  /\ Len(NamedAmounts(sheet, "Pay this Amount")) = 1
               /\ NamedAmounts(sheet, "Pay this Amount")[1] = flat
               /\ SumOf(NamedAmounts(sheet, "Subtotal")) = flat
               /\ SumOf([k \in 1..Len(groups) |-> groups[k].totalAmount]) = flat
               /\ \A i \in 1..Len(df) :
                      df[i].IBM_Invoice_Month = L =>
                          Cardinality({k \in 1..Len(groups) :
                              /\ groups[k].index.Type = df[i].Type
                              /\ groups[k].index.Portal_Invoice_Number
                                     = df[i].Portal_Invoice_Number
                              /\ groups[k].index.Service_Date_Start
                                     = df[i].Service_Date_Start
                              /\ groups[k].index.Service_Date_End = df[i].Service_Date_End
                              /\ groups[k].index.Recurring_Description
                                     = df[i].Recurring_Description}) = 1
    /\ report # <<>> =>
           \A i \in 1..Len(df) :
               \E n \in 1..Len(TopSheets) : TopSheets[n].month = df[i].IBM_Invoice_Month

\* a TopSheet of two subtotal blocks, one of them over two ledger rows that
\* fall in one group (100.00 + 30.00), paying 230.00 in all
C17_Witness ==
    /\ Len(df) = 3
    /\ Len(TopSheets) = 1
    /\ Len(GroupRows(TopSheets[1])) = 2
    /\ NamedAmounts(TopSheets[1], "Subtotal") = <<13000, 10000>>
    /\ NamedAmounts(TopSheets[1], "Pay this Amount") = <<23000>>

RECURSIVE FirstOccurrences(_)
\* the distinct members of a sequence in the order they first occur
FirstOccurrences(s) ==
    IF s = <<>> THEN <<>>
    ELSE LET rest == FirstOccurrences(Tail(s))
         IN  <<Head(s)>> \o SelectSeq(rest, LAMBDA x : x # Head(s))

\* the Types of the Subtotal rows of sheet, in order
SubtotalTypes(sheet) ==
    LET rs == SelectSeq(sheet.rows,
                        LAMBDA r : "name" \in DOMAIN r /\ r.name[4] = "Subtotal")
    IN  [k \in 1..Len(rs) |-> rs[k].name[1]]

\* the Types of the ledger rows of cycle L, in order
LedgerTypes(L) ==
    LET rs == SelectSeq(df, LAMBDA r : r.IBM_Invoice_Month = L)
    IN  [k \in 1..Len(rs) |-> rs[k].Type]

\* C18: the TopSheets of a report are in the order in which their billing
\* cycles first occur in the ledger, and within each TopSheet the subtotal
\* blocks are in the order in which their invoice types first occur among
\* the ledger rows of the cycle.
C18_EncounterOrder ==
    report # <<>> =>
        /\ [n \in 1..Len(TopSheets) |-> TopSheets[n].month]
               = FirstOccurrences([i \in 1..Len(df) |-> df[i].IBM_Invoice_Month])
        /\ \A n \in 1..Len(TopSheets) :
               SubtotalTypes(TopSheets[n])
                   = FirstOccurrences(LedgerTypes(TopSheets[n].month))

\* a ledger whose cycle has its RECURRING row before its NEW row, reported
\* with the NEW block before the RECURRING block
C18_BlocksSortedByType ==
    /\ Len(df) = 2
    /\ df[1].Type = "RECURRING"
    /\ df[2].Type = "NEW"
    /\ Len(TopSheets) = 1
    /\ SubtotalTypes(TopSheets[1]) = <<"NEW", "RECURRING">>

-----------------------------------------------------------------------------
(* The date range *)

\* the months since year 0 of a date
MonthIndex(d) == d[1] * 12 + d[2] - 1

\* the 20th of the month of index t
Twentieth(t) == <<t \div 12, (t % 12) + 1, 20>>

\* C21: with --months N the range of the run covers N consecutive labels
\* and ends at the current month when today's day is after the 19th and at
\* the previous month otherwise; the start label is N - 1 months before the
\* end label, the year rolling over with the months. The window handed on
\* runs from the 20th of the month before the start label to the 20th of
\* the end label.
C21_MonthsRange ==
    (pc = "getInvoiceList" /\ "months" \in DOMAIN args) =>
        LET N == args.months
            endLabel == IF today[3] > 19 THEN MonthIndex(today) ELSE MonthIndex(today) - 1
            startLabel == IF today[3] > 19 THEN MonthIndex(today) - (N - 1)
                          ELSE MonthIndex(today) - N
        IN  /\ endLabel - startLabel + 1 = N
            /\ enddate = Twentieth(endLabel)
            /\ startdate = Twentieth(startLabel - 1)

\* three months on 2024-01-19: labels 2023-10 to 2023-12, the window from
\* 2023-09-20 to 2023-12-20
C21_Witness ==
    /\ pc = "getInvoiceList"
    /\ today = <<2024, 1, 19>>
    /\ args.months = 3
    /\ startdate = <<2023, 9, 20>>
    /\ enddate = <<2023, 12, 20>>

\* the label YYYYMM of the month of index t
LabelOf(t) == (t \div 12) * 100 + (t % 12) + 1

\* the usage months requested so far, in order
UsageMonthsFetched ==
    LET rs == SelectSeq(calls, LAMBDA c : c.api = "get_account_usage")
    IN  [k \in 1..Len(rs) |-> rs[k].billingmonth]

\* C22: for requested labels S..E accountUsage requests the usage months
\* S-2, S-1, ..., one after the other and none after E-2; when it returns,
\* it has requested exactly one month for each label of S..E; and every
\* usage row carries as invoiceMonth the label two months after its
\* usageMonth, a label of S..E.
C22_UsageMonths ==
    pc \in {"usage", "createReport", "complete"} =>
        LET S == MonthIndex(startdate) + 1
            E == MonthIndex(enddate)
            fetched == UsageMonthsFetched
        IN  /\ \A k \in 1..Len(fetched) :
                   fetched[k] = LabelOf(S - 2 + (k - 1)) /\ S - 2 + (k - 1) <= E - 2
            /\ (pc # "usage" /\ paasUsage.kind = "DataFrame") =>
                   Len(fetched) = (IF E >= S THEN E - S + 1 ELSE 0)
            /\ \A i \in 1..Len(paasUsage.rows) :
                   \E t \in S..E :
                       /\ paasUsage.rows[i].invoiceMonth = LabelOf(t)
                       /\ paasUsage.rows[i].usageMonth = LabelOf(t - 2)

\* labels 2023-12 to 2024-02: usage of 2023-10, 2023-11 and 2023-12 fetched,
\* the December usage reported on the February label
C22_Witness ==
    /\ pc = "createReport"
    /\ UsageMonthsFetched = <<202310, 202311, 202312>>
    /\ \E i \in 1..Len(paasUsage.rows) :
           /\ paasUsage.rows[i].usageMonth = 202312
           /\ paasUsage.rows[i].invoiceMonth = 202402

-----------------------------------------------------------------------------
(* The forecast *)

\* the last billing-cycle label of the ledger, in order of first occurrence
LastLabel ==
    LET labels == FirstOccurrences([i \in 1..Len(df) |-> df[i].IBM_Invoice_Month])
    IN  labels[Len(labels)]

\* the RECURRING rows of the ledger of cycle L and category c
RecurringRowsOf(L, c) ==
    SelectSeq(df, LAMBDA r : r.IBM_Invoice_Month = L /\ r.Type = "RECURRING"
                              /\ r.Category = c)

\* the NEW rows of the ledger of cycle L and category c that were invoiced
\* from the 1st to the 19th of the month L
NewRowsOf(L, c) ==
    SelectSeq(df, LAMBDA r : /\ r.IBM_Invoice_Month = L
                             /\ r.Type = "NEW"
                             /\ r.Category = c
                             /\ r.Portal_Invoice_Date \div 100 = L
                             /\ r.Portal_Invoice_Date % 100 \in 1..19)

\* the sum of a sequence of exact quotients
RECURSIVE SumOfQuotients(_)
SumOfQuotients(s) ==
    IF s = <<>> THEN Frac(0, 1) ELSE FracAdd(Head(s), SumOfQuotients(Tail(s)))

\* nextRecurring of cycle L and category c as the forecast is described
NextRecurringOf(L, c) ==
    LET R == RecurringRowsOf(L, c)
        N == NewRowsOf(L, c)
    IN  FracAdd(Frac(SumOf([k \in 1..Len(R) |->
                                R[k].totalRecurringCharge + R[k].totalOneTimeAmount]), 1),
                SumOfQuotients([k \in 1..Len(N) |-> N[k].NewEstimatedMonthly]))

\* the categories of the rows the forecast of cycle L is about
ForecastCategories(L) ==
    { df[i].Category : i \in { j \in 1..Len(df) :
          RecurringRowsOf(L, df[j].Category) \o NewRowsOf(L, df[j].Category) # <<>> } }

Forecasts == SelectSeq(report, LAMBDA sheet : sheet.name = "recurringForecast")

\* the written forecast is the one of the last label: a row for every category
\* with nextRecurring as described, and a Total row that is the sum of the
\* category rows; there is no forecast sheet when no row qualifies
ForecastAsDescribed ==
    pc = "complete" =>
        LET cats == ForecastCategories(LastLabel)
        IN  IF cats = {} THEN Forecasts = <<>>
            ELSE /\ Len(Forecasts) = 1
                 /\ Forecasts[1].month = LastLabel
                 /\ LET rows == Forecasts[1].rows
                        byCategory == SubSeq(rows, 1, Len(rows) - 1)
                        Total == rows[Len(rows)]
                    IN  /\ Len(byCategory) = Cardinality(cats)
                        /\ \A c \in cats :
                               \E k \in 1..Len(byCategory) :
                                   /\ byCategory[k].Category = c
                                   /\ byCategory[k].nextRecurring = NextRecurringOf(LastLabel, c)
                        /\ Total.Category = "Total"
                        /\ Total.nextRecurring
                               = SumOfQuotients([k \in 1..Len(byCategory) |->
                                                    byCategory[k].nextRecurring])
                        /\ Frac(Total.lastRecurringInvoice, 1)
                               = SumOfQuotients([k \in 1..Len(byCategory) |->
                                       Frac(byCategory[k].lastRecurringInvoice, 1)])
                        /\ Total.NewEstimatedCharges
                               = SumOfQuotients([k \in 1..Len(byCategory) |->
                                                    byCategory[k].NewEstimatedCharges])

\* C23: the recurringForecast view is built without error for any ledger,
\* an empty one included, and it is the forecast of the last billing-cycle
\* label of the ledger: per category, nextRecurring is the sum of the recurring
\* and one-time amounts of the RECURRING rows of that cycle plus the sum of
\* NewEstimatedMonthly over the NEW rows of that cycle invoiced from the 1st to
\* the 19th of the label month, and the Total row is the sum over categories.
C23_RecurringForecast ==
    /\ pc # "IndexError"
    /\ ForecastAsDescribed

\* a forecast of cycle 2024-01 with a NEW row of 5 January added to the
\* RECURRING row of a category
C23_ForecastWritten ==
    /\ pc = "complete"
    /\ Len(df) = 2
    /\ df[1].Type = "RECURRING" /\ df[1].Category = "Computing Instance"
    /\ df[1].totalRecurringCharge = 10000
    /\ df[2].Type = "NEW" /\ df[2].Category = "Computing Instance"
    /\ df[2].totalRecurringCharge = 10000
    /\ Len(Forecasts) = 1
    /\ Forecasts[1].rows[1].nextRecurring = Frac(10000 * 27 + 10000 * 31, 27)

\* a NEW row of 20 January, of cycle 2024-02, left out of the forecast of
\* 2024-02
C23_NewRowBeforeTheFirstLeftOut ==
    /\ pc = "complete"
    /\ Len(df) = 2
    /\ df[1].Type = "RECURRING" /\ df[1].IBM_Invoice_Month = 202402
    /\ df[1].totalRecurringCharge = 10000
    /\ df[2].Type = "NEW" /\ df[2].IBM_Invoice_Month = 202402
    /\ df[2].Category = df[1].Category
    /\ Len(Forecasts) = 1
    /\ Forecasts[1].rows[1].nextRecurring = Frac(10000, 1)

-----------------------------------------------------------------------------
(* The query window *)

\* the billing-cycle label of timestamp t
LabelOfTimestamp(t) ==
    IF t[3] <= 19 THEN LabelOf(MonthIndex(t)) ELSE LabelOf(MonthIndex(t) + 1)

\* t lies in the window from 00:00 on the 20th of the month before S up to,
\* but not including, 00:00 on the 20th of E
InWindow(t, S, E) ==
    LET from == Twentieth(MonthIndex(LabelDate(S, 1)) - 1)
        upto == Twentieth(MonthIndex(LabelDate(E, 1)))
    IN  /\ strftimeYmd(from) <= strftimeYmd(t)
        /\ strftimeYmd(t) < strftimeYmd(upto)

\* the window of getInvoiceDates is the one of the labels S..E, and a
\* timestamp is labelled within S..E exactly when it lies in the window
WindowIsTheCycles ==
    pc # "main" =>
        /\ startdate = Twentieth(MonthIndex(LabelDate(args.startdate, 1)) - 1)
        /\ enddate = Twentieth(MonthIndex(LabelDate(args.enddate, 1)))
        /\ \A t \in Timestamps :
               (LabelOfTimestamp(t) \in args.startdate..args.enddate)
                   <=> InWindow(t, args.startdate, args.enddate)

\* C24: the query window of getInvoiceDates agrees with the labelling rule of
\* getCFTSInvoiceDate: for requested labels S..E a timestamp has a label within
\* S..E if and only if it lies in the window from 00:00 on the 20th of the
\* month before S up to, but not including, 00:00 on the 20th of E; so every
\* invoice the query selects is labelled within S..E.
C24_WindowAgreesWithLabels ==
    /\ WindowIsTheCycles
    /\ pc = "page" => CFTSInvoiceDate \in args.startdate..args.enddate

\* an invoice created at 00:00:00 on the 20th of the end label, selected and
\* labelled with the month after the range
C24_EndOfWindowSelected ==
    /\ pc = "page"
    /\ args.enddate = 202312
    /\ invoiceDate = <<2023, 12, 20>>
    /\ invoiceList[1].createTime = 0
    /\ CFTSInvoiceDate = 202401

\* every selected invoice created before the end of the window is labelled
\* within the range
C24_InsideWindowLabelled ==
    (pc = "page" /\ invoiceDate # enddate) =>
        CFTSInvoiceDate \in args.startdate..args.enddate

-----------------------------------------------------------------------------
(* Recurring_Description *)

\* Recurring_Description as the item and the invoice type of row i alone give it
DescriptionOfOwnItem(i) ==
    IF ItemOf(i).hourlyFlag THEN "IaaS Usage"
    ELSE IF ItemOf(i).category = "IBM Platform Service Plan Usage"
    THEN "Platform Service Usage"
    ELSE IF df[i].Type = "RECURRING" THEN "IaaS Monthly"
    ELSE ""

\* C25: the Recurring_Description of a ledger row depends only on the row's
\* own line item and invoice type: "IaaS Usage" exactly for hourly items,
\* "Platform Service Usage" exactly for non-hourly Platform Service Plan
\* items, "IaaS Monthly" exactly for the other non-hourly items on RECURRING
\* invoices, and empty for every other row, whatever items were processed
\* before it.
C25_DescriptionOfOwnItem ==
    \A i \in 1..Len(df) : df[i].Recurring_Description = DescriptionOfOwnItem(i)

\* a monthly item of a NEW invoice that follows an hourly item of the same
\* invoice and carries its description
C25_StaleDescription ==
    \E i \in 2..Len(df) :
        /\ raw[i].invoice = raw[i - 1].invoice
        /\ df[i].Type = "NEW"
        /\ ItemOf(i - 1).hourlyFlag
        /\ ~ItemOf(i).hourlyFlag
        /\ ItemOf(i).category # "IBM Platform Service Plan Usage"
        /\ df[i].Recurring_Description = "IaaS Usage"

\* the first row of every invoice, and every row whose item sets the
\* description itself, carries the description of its own item
C25_FirstRowOfInvoice ==
    \A i \in 1..Len(df) :
        (\/ i = 1
         \/ raw[i].invoice # raw[i - 1].invoice
         \/ ItemOf(i).hourlyFlag
         \/ ItemOf(i).category = "IBM Platform Service Plan Usage"
         \/ df[i].Type = "RECURRING") =>
            df[i].Recurring_Description = DescriptionOfOwnItem(i)

-----------------------------------------------------------------------------
(* The report of RECURRING invoices *)

\* the printed lines of one kind
LinesOf(kind) == SelectSeq(report, LAMBDA l : l.line = kind)

\* the hourly items of the invoice at hand
HourlyItemsOf(invoice) ==
    SelectSeq(invoice.invoiceTopLevelItems,
              LAMBDA item : "hourlyRecurringFee" \in DOMAIN item)

\* the invoice at hand is RECURRING with a positive total
PositiveRecurring ==
    /\ invoiceList # <<>>
    /\ invoiceList[1].typeCode = "RECURRING"
    /\ float(invoiceList[1].invoiceTotalAmount) > 0

\* C26: GetReccuringInvoices completes its report for every RECURRING invoice
\* with a positive total, whatever mix of items it holds: the hourly section
\* is computed without a division by zero when the invoice has no hourly
\* items or when an item carries an hourlyRecurringFee of 0, and the monthly
\* section is then still printed.
C26_ReportCompletes ==
    /\ pc # "ZeroDivisionError"
    /\ (PositiveRecurring /\ invoiceIdx > 1) =>
           /\ Len(LinesOf("Hourly Average")) = 1
           /\ Len(LinesOf("Monthly totals")) = 1

\* an invoice of one monthly server: the script ends at the average of the
\* hourly section, the monthly section not printed
C26_NoHourlyItem ==
    /\ pc = "ZeroDivisionError"
    /\ PositiveRecurring
    /\ Len(invoiceList[1].invoiceTopLevelItems) = 1
    /\ HourlyItemsOf(invoiceList[1]) = <<>>
    /\ invoiceList[1].invoiceTopLevelItems[1].recurringFee = 10000
    /\ Len(LinesOf("Hourly Totals")) = 1
    /\ LinesOf("Monthly totals") = <<>>

\* an invoice of an hourly instance and an item with an hourlyRecurringFee of
\* 0: the script ends at the hours of the second item
C26_ZeroHourlyFee ==
    /\ pc = "ZeroDivisionError"
    /\ PositiveRecurring
    /\ Len(invoiceList[1].invoiceTopLevelItems) = 2
    /\ Len(HourlyItemsOf(invoiceList[1])) = 2
    /\ HourlyItemsOf(invoiceList[1])[1].hourlyRecurringFee = 2500
    /\ HourlyItemsOf(invoiceList[1])[2].hourlyRecurringFee = 0
    /\ Len(LinesOf("hourly item")) = 1
    /\ LinesOf("Hourly Totals") = <<>>
    /\ LinesOf("Monthly totals") = <<>>

\* the report of an invoice that has an hourly item and no hourly item with a
\* fee of 0 is complete: a line for every hourly item, the totals over them,
\* and the monthly section; the script ends early for no other invoice
C26_CompleteWithHourlyItems ==
    LET hourly == HourlyItemsOf(invoiceList[1])
        free == SelectSeq(hourly, LAMBDA item : item.hourlyRecurringFee = 0)
    IN  /\ pc = "ZeroDivisionError" => hourly = <<>> \/ free # <<>>
        /\ (PositiveRecurring /\ invoiceIdx > 1 /\ pc # "ZeroDivisionError") =>
               /\ hourly # <<>> /\ free = <<>>
               /\ Len(LinesOf("hourly item")) = Len(hourly)
               /\ LinesOf("Hourly Totals")[1].totalItems = Len(hourly)
               /\ LinesOf("Hourly Totals")[1].totalHours
                      = SumOf([k \in 1..Len(hourly) |->
                                  Round(hourly[k].recurringFee * 1000,
                                        hourly[k].hourlyRecurringFee)])
               /\ Len(LinesOf("Hourly Average")) = 1
               /\ Len(LinesOf("Monthly totals")) = 1

=============================================================================
